---- MODULE Spec2Model ----
(***************************************************************************)
(* Model of the media assembly node of the Zeteon pipeline                 *)
(* (src/nodes/video_assembly.py): ass_ts, generate_ass_karaoke,            *)
(* sync_to_cloud and video_stitching_slideshow.                            *)
(*                                                                         *)
(* Time.  Every duration and timestamp is an integer number of ticks,      *)
(* TicksPerSec ticks to the second (0.1 ms), so that values finer than the *)
(* millisecond of "%.3f" and the centisecond of "%.2f" / int(x*100) exist  *)
(* and the conversions round or truncate as the code's do.  Values that    *)
(* the code divides (the stretch factor, the scaled scene durations) are   *)
(* exact rationals: a numerator over the common denominator                *)
(* total_scene_script_dur.  IEEE rounding of the code's floats is not      *)
(* modelled.                                                               *)
(***************************************************************************)
EXTENDS Integers, Sequences, FiniteSets, TLC

VARIABLES
    pc,              \* position of the running node, or of the pure computation
    run,             \* number of invocations of video_stitching_slideshow so far
    state,           \* the flowstate dict handed to the node
    alignment_data,  \* json.load of alignment_row_<id>.json
    vo_duration,     \* float(ffprobe output), ticks
    tl,              \* locals of section 2/3: total_target_dur, stretch_factor, calc_durs, offsets
    audio,           \* locals of section 4: selected_music and the audio filter graph
    ass,             \* what generate_ass_karaoke computed: words and events
    cmd,             \* the ffmpeg argument vector of section 5
    fs,              \* files of OUTPUT_DIR: path -> content
    sheet,           \* the "ideas" worksheet: row -> cells 4, 5, 7
    git_remote,      \* files pushed to the git remote
    hist,            \* history of the current run (calls made, stages entered, fs at entry)
    git_repo,        \* the working repository sync_to_cloud runs git in: index and commits
    other,           \* the locals of a second worker process while it is not running
    pl,              \* the pipeline around the node: graph position, flags, upload node
    local            \* the locals of image_generation or audio_generation in execution

vars == <<pc, run, state, alignment_data, vo_duration, tl, audio, ass, cmd,
          fs, sheet, git_remote, hist, git_repo, other, pl, local>>

-----------------------------------------------------------------------------
(* Bounds of the model *)

\* longest scene list enumerated for the timeline computation
MaxScenes == 3
\* longest character sequence enumerated exhaustively for the caption builder
MaxChars == 5
\* invocations of the node in one behaviour
MaxRuns == 3
\* length of the texts whose alignment lists are cut to different lengths
MaxMalformed == 3
\* runs of the whole pipeline in one behaviour
MaxPipelineRuns == 2
\* scenes of the script the image stage works on
MaxImageScenes == 3
\* processes that call audio_generation on the same OUTPUT_DIR, one after another
MaxAudioRuns == 3

-----------------------------------------------------------------------------
(* Units and program constants *)

TicksPerSec == 10 * 1000
TicksPerMs == TicksPerSec \div 1000
TicksPerCs == TicksPerSec \div 100

\* pause_at_end = 1.5
pause_at_end == (3 * TicksPerSec) \div 2
\* the 0.5 added to every calc_dur but the last, and xfade duration=0.5
xfade_dur == TicksPerSec \div 2
\* generate_ass_karaoke(..., max_words=4)
max_words == 4
\* fps=30 of the zoompan clips
fps == 30

None == -1

-----------------------------------------------------------------------------
(* Arithmetic helpers *)

Max(a, b) == IF a >= b THEN a ELSE b

\* int(x) of Python for the rational a/b, b > 0: truncation towards zero
IntTrunc(a, b) == IF a >= 0 THEN a \div b ELSE -((-a) \div b)

\* "%.Nf" for the non-negative rational a/b, b > 0: the nearest multiple
RoundDiv(a, b) == (2 * a + b) \div (2 * b)

RECURSIVE SumSeq(_)
SumSeq(s) == IF s = <<>> THEN 0 ELSE Head(s) + SumSeq(Tail(s))

\* all sequences over S of length 0..n
RECURSIVE SeqsUpTo(_, _)
SeqsUpTo(S, n) ==
    IF n = 0 THEN {<<>>}
    ELSE LET shorter == SeqsUpTo(S, n - 1)
         IN  shorter \cup {Append(s, x) : s \in {t \in shorter : Len(t) = n - 1}, x \in S}

-----------------------------------------------------------------------------
(* Text: a string of the code is a sequence of one-character strings *)

IsSpace(ch) == ch \in {" ", "\t", "\n"}

\* the class [a-zA-Z0-9,\.\!\?\'] of the re.sub, over the characters the model uses
KeptChars == {"a", "b", "A", "B", "H", "I", "T", "E", "R", "7", ",", ".", "!", "?", "'"}

\* str.upper() on one character
UpperChar(ch) == CASE ch = "a" -> "A" [] ch = "b" -> "B" [] OTHER -> ch

\* re.sub(r'[^a-zA-Z0-9,\.\!\?\']', '', cur_word.strip()).upper()
CleanUpper(cur_word) ==
    LET kept == SelectSeq(cur_word, LAMBDA ch : ch \in KeptChars)
    IN  [j \in 1..Len(kept) |-> UpperChar(kept[j])]

\* any(p in word_obj["text"] for p in ["!", ".", "?"])
HasSentenceEnd(text) == \E j \in 1..Len(text) : text[j] \in {"!", ".", "?"}

\* topic_comment.upper(), over the comments the model uses
UpperStr(s) == CASE s = "comment science" -> "COMMENT SCIENCE" [] OTHER -> s

-----------------------------------------------------------------------------
(* ass_ts: the H:MM:SS.cc timestamp, as its three printed numbers *)

ass_ts(sec) ==
    LET t == Max(0, sec)
        h == t \div (3600 * TicksPerSec)
        m == (t % (3600 * TicksPerSec)) \div (60 * TicksPerSec)
        s == t % (60 * TicksPerSec)
    IN  [h |-> h, m |-> m, cs |-> RoundDiv(s, TicksPerCs)]

\* the time a printed timestamp denotes, in centiseconds
AssCs(ts) == ts.h * 360000 + ts.m * 6000 + ts.cs

-----------------------------------------------------------------------------
(* generate_ass_karaoke, lines 28-37: characters to words *)

\* not word_start: None and 0.0 are both false
NotWordStart(word_start) == word_start = None \/ word_start = 0

SegInit == [words |-> <<>>, cur_word |-> <<>>, word_start |-> None, err |-> FALSE]

\* one iteration of "for i, ch in enumerate(chars)", i counted from 1
SegStep(ad, i, acc) ==
    LET chars == ad.characters
        starts == ad.character_start_times_seconds
        ends == ad.character_end_times_seconds
        raise == [acc EXCEPT !.err = TRUE]
    IN  IF acc.err THEN acc
        ELSE IF NotWordStart(acc.word_start) /\ i > Len(starts) THEN raise
        ELSE LET ws == IF NotWordStart(acc.word_start) THEN starts[i] ELSE acc.word_start
             IN  IF IsSpace(chars[i]) \/ i = Len(chars)
                 THEN IF acc.cur_word # <<>>
                      THEN IF i > Len(ends) THEN raise
                           ELSE [words |-> Append(acc.words,
                                              [text |-> CleanUpper(acc.cur_word),
                                               start |-> ws, end |-> ends[i]]),
                                 cur_word |-> <<>>, word_start |-> None, err |-> FALSE]
                      ELSE [acc EXCEPT !.cur_word = <<>>, !.word_start = None]
                 ELSE [acc EXCEPT !.cur_word = Append(@, chars[i]), !.word_start = ws]

RECURSIVE SegLoop(_, _, _)
SegLoop(ad, i, acc) ==
    IF i > Len(ad.characters) THEN acc ELSE SegLoop(ad, i + 1, SegStep(ad, i, acc))

Segment(ad) == SegLoop(ad, 1, SegInit)

-----------------------------------------------------------------------------
(* generate_ass_karaoke, lines 48-65: words to Dialogue events *)

\* {\k<int((end-start)*100)>}TEXT for one word
KTag(w) == [k |-> IntTrunc((w.end - w.start) * 100, TicksPerSec), w |-> w.text]

create_line(chunk) ==
    [start |-> ass_ts(chunk[1].start), end |-> ass_ts(chunk[Len(chunk)].end),
     style |-> "Default", text |-> [j \in 1..Len(chunk) |-> KTag(chunk[j])], cta |-> ""]

\* variant of ChunkStep: the chunk is flushed once it exceeds max_words
ChunkStepLate(word_obj, acc, maxw) ==
    LET chunk == Append(acc.current_chunk, word_obj)
    IN  IF Len(chunk) > maxw \/ HasSentenceEnd(word_obj.text)
        THEN [events |-> Append(acc.events, create_line(chunk)), current_chunk |-> <<>>]
        ELSE [events |-> acc.events, current_chunk |-> chunk]

\* one iteration of "for word_obj in words"
ChunkStep(word_obj, acc, maxw) ==
    LET chunk == Append(acc.current_chunk, word_obj)
    IN  IF Len(chunk) >= maxw \/ HasSentenceEnd(word_obj.text)
        THEN [events |-> Append(acc.events, create_line(chunk)), current_chunk |-> <<>>]
        ELSE [events |-> acc.events, current_chunk |-> chunk]

RECURSIVE ChunkLoop(_, _, _, _)
ChunkLoop(words, j, acc, maxw) ==
    IF j > Len(words) THEN acc
    ELSE ChunkLoop(words, j + 1, ChunkStep(words[j], acc, maxw), maxw)

\* lines 54-61, with the flush of the remaining chunk
CaptionEvents(words, maxw) ==
    LET acc == ChunkLoop(words, 1, [events |-> <<>>, current_chunk |-> <<>>], maxw)
    IN  IF acc.current_chunk # <<>>
        THEN Append(acc.events, create_line(acc.current_chunk))
        ELSE acc.events

\* variant of CtaEvent: the call to action ends, not starts, at final_vo_time
CtaEventEarly(final_vo_time, topic_comment, pause) ==
    [start |-> ass_ts(final_vo_time - pause), end |-> ass_ts(final_vo_time),
     style |-> "CTA", text |-> <<>>, cta |-> UpperStr(topic_comment)]

\* line 65
CtaEvent(final_vo_time, topic_comment, pause) ==
    [start |-> ass_ts(final_vo_time), end |-> ass_ts(final_vo_time + pause),
     style |-> "CTA", text |-> <<>>, cta |-> UpperStr(topic_comment)]

AssPath(row_id) == <<"subs_row", row_id, "ass">>

NoAss == [err |-> FALSE, ass_path |-> <<>>, words |-> <<>>, events |-> <<>>]

\* variant of generate_ass_karaoke: the call to action starts at the end of the
\* last word instead of the end of the last character
generate_ass_karaoke_at_last_word(st, ad, topic_comment, pause, maxw) ==
    LET seg == Segment(ad)
        ends == ad.character_end_times_seconds
        last_end == IF seg.words = <<>> THEN ends[Len(ends)]
                    ELSE seg.words[Len(seg.words)].end
    IN  IF seg.err \/ ends = <<>>
        THEN [NoAss EXCEPT !.err = TRUE]
        ELSE [err |-> FALSE,
              ass_path |-> AssPath(st.row_index),
              words |-> seg.words,
              events |-> Append(CaptionEvents(seg.words, maxw),
                                CtaEvent(last_end, topic_comment, pause))]

\* the whole helper up to the file write; err: an IndexError was raised
generate_ass_karaoke(st, ad, topic_comment, pause, maxw) ==
    LET seg == Segment(ad)
        ends == ad.character_end_times_seconds
    IN  IF seg.err \/ ends = <<>>
        THEN [NoAss EXCEPT !.err = TRUE]
        ELSE [err |-> FALSE,
              ass_path |-> AssPath(st.row_index),
              words |-> seg.words,
              events |-> Append(CaptionEvents(seg.words, maxw),
                                CtaEvent(ends[Len(ends)], topic_comment, pause))]

-----------------------------------------------------------------------------
(* video_stitching_slideshow, section 2: timing.  scenes is the sequence   *)
(* of the Scene_Duration values; a value over the denominator              *)
(* total_scene_script_dur is kept as its numerator.                        *)

\* "%.3f" of the rational num/den ticks: the printed number of milliseconds
Fmt3(num, den) == RoundDiv(num, den * TicksPerMs)

\* variant of SceneSum: the first scene left out of the sum
SceneSumSkipFirst(scenes) == IF scenes = <<>> THEN 0 ELSE SumSeq(Tail(scenes))

\* sum(float(s["Scene_Duration"]) for s in scenes)
SceneSum(scenes) == SumSeq(scenes)

\* variant of CalcDur: no transition overlap is added to the scenes before the last
CalcDurNoOverlap(scenes, n_images, vo, i, total) ==
    scenes[i] * vo + (IF i < n_images THEN 0 ELSE pause_at_end) * total

\* lines 129-132: numerator of calc_durs[i], i counted from 1
CalcDur(scenes, n_images, vo, i, total) ==
    scenes[i] * vo + (IF i < n_images THEN xfade_dur ELSE pause_at_end) * total

\* variant of CurOffset: the render durations, which include the 0.5 s overlap,
\* are accumulated instead of the scaled ones
RECURSIVE CurOffsetRendered(_, _, _)
CurOffsetRendered(scenes, vo, i) ==
    IF i = 0 THEN 0
    ELSE CurOffsetRendered(scenes, vo, i - 1) + scenes[i] * vo + xfade_dur * SumSeq(scenes)

\* lines 142-146: numerator of cur_offset at the xfade into image i+1 (i from 1)
RECURSIVE CurOffset(_, _, _)
CurOffset(scenes, vo, i) ==
    IF i = 0 THEN 0 ELSE CurOffset(scenes, vo, i - 1) + scenes[i] * vo

\* variant of TotalTargetDur: the transition overlap taken for the pause
TotalTargetDurOverlap(vo) == vo + xfade_dur

\* line 124
TotalTargetDur(vo) == vo + pause_at_end

NoTimeline ==
    [err |-> FALSE, total_target_dur |-> 0, total_scene_script_dur |-> 0,
     stretch_factor |-> [num |-> 0, den |-> 1], calc_durs |-> <<>>, offsets |-> <<>>]

\* lines 123-146; err: ZeroDivisionError (line 127) or IndexError (line 131 / 144)
Timeline(scenes, n_images, vo) ==
    LET total == SceneSum(scenes)
    IN  IF total = 0 \/ n_images > Len(scenes)
        THEN [NoTimeline EXCEPT !.err = TRUE]
        ELSE [err |-> FALSE,
              total_target_dur |-> TotalTargetDur(vo),
              total_scene_script_dur |-> total,
              stretch_factor |-> [num |-> vo, den |-> total],
              calc_durs |-> [i \in 1..n_images |-> CalcDur(scenes, n_images, vo, i, total)],
              offsets |-> [i \in 1..(n_images - 1) |-> CurOffset(scenes, vo, i)]]

-----------------------------------------------------------------------------
(* sections 3-5: the filter graph and the ffmpeg argument vector.  A       *)
(* stream label [name] is a record; image i of the code (from 0) is i.     *)

Lbl(name, i) == [n |-> name, i |-> i]

\* lines 136-140: one zoompan clip per image
VFilters(t, n_images) ==
    [i \in 1..n_images |->
        [op |-> "zoompan", ins |-> <<Lbl("in_v", i - 1)>>, outs |-> <<Lbl("v", i - 1)>>,
         arg |-> IntTrunc(t.calc_durs[i] * fps, t.total_scene_script_dur * TicksPerSec)]]

\* variant of LastV: last_v is never advanced to the output of the xfade
LastVStale(k) == Lbl("v", 0)

\* last_v after k rounds of the loop of lines 143-146
LastV(k) == IF k = 0 THEN Lbl("v", 0) ELSE Lbl("xf", k)

\* lines 142-146: the xfade chain
ConcatFilter(t, n_images) ==
    [i \in 1..(n_images - 1) |->
        [op |-> "xfade", ins |-> <<LastV(i - 1), Lbl("v", i)>>, outs |-> <<Lbl("xf", i)>>,
         arg |-> Fmt3(t.offsets[i], t.total_scene_script_dur), dur |-> xfade_dur]]

\* line 177: the caption overlay on last_v
AssFilter(n_images) ==
    <<[op |-> "ass", ins |-> <<LastV(Max(0, n_images - 1))>>,
       outs |-> <<Lbl("v_final", 0)>>, arg |-> 0]>>

\* variant of AudioFilter: the music loop with its fade is emitted whether or not
\* a music file was selected
AudioFilterKeepsLoop(selected_music, n_images, total_target_dur) ==
    <<[op |-> "apad", ins |-> <<Lbl("in_a", n_images)>>,
       outs |-> <<Lbl("a_final", 0)>>, arg |-> pause_at_end],
      [op |-> "loop_afade", ins |-> <<Lbl("in_a", n_images + 1)>>,
       outs |-> <<Lbl("bg_loop", 0)>>, arg |-> total_target_dur - TicksPerSec]>>

\* lines 154-165
AudioFilter(selected_music, n_images, total_target_dur) ==
    LET vo_idx == n_images
        bg_idx == n_images + 1
        fade_start == total_target_dur - TicksPerSec
    IN  IF selected_music
        THEN <<[op |-> "apad_asplit", ins |-> <<Lbl("in_a", vo_idx)>>,
                outs |-> <<Lbl("vo_p1", 0), Lbl("vo_p2", 0)>>, arg |-> pause_at_end],
               [op |-> "loop_afade", ins |-> <<Lbl("in_a", bg_idx)>>,
                outs |-> <<Lbl("bg_loop", 0)>>, arg |-> fade_start],
               [op |-> "sidechaincompress", ins |-> <<Lbl("bg_loop", 0), Lbl("vo_p1", 0)>>,
                outs |-> <<Lbl("bg_duck", 0)>>, arg |-> 0],
               [op |-> "amix", ins |-> <<Lbl("vo_pad2", 0), Lbl("bg_duck", 0)>>,
                outs |-> <<Lbl("a_final", 0)>>, arg |-> 0]>>
        ELSE <<[op |-> "apad", ins |-> <<Lbl("in_a", vo_idx)>>,
                outs |-> <<Lbl("a_final", 0)>>, arg |-> pause_at_end]>>

VideoPath(row_id) == <<"Video_Row", row_id, "mp4">>

NoCmd == [inputs |-> <<>>, graph |-> <<>>, maps |-> <<>>, t |-> 0, out |-> <<>>]

\* lines 171-184
BuildCmd(st, t, au) ==
    LET n == Len(st.image_paths)
        images == [i \in 1..n |->
                     [kind |-> "image", path |-> st.image_paths[i],
                      t |-> Fmt3(t.calc_durs[i], t.total_scene_script_dur)]]
        voice == <<[kind |-> "audio", path |-> <<"vo_row", st.row_index, "mp3">>, t |-> 0]>>
        music == IF au.selected_music
                 THEN <<[kind |-> "audio", path |-> <<"bkg_music", 0, "mp3">>, t |-> 0]>>
                 ELSE <<>>
    IN  [inputs |-> images \o voice \o music,
         graph |-> VFilters(t, n) \o ConcatFilter(t, n) \o AssFilter(n) \o au.audio_filter,
         maps |-> <<Lbl("v_final", 0), Lbl("a_final", 0)>>,
         t |-> Fmt3(t.total_target_dur, 1),
         out |-> VideoPath(st.row_index)]

(* What ffmpeg requires of a command before it can exit 0: every label a   *)
(* filter consumes is a stream of an existing input of the right kind or   *)
(* the output of a filter, every filter output is consumed or mapped, and  *)
(* every mapped label is produced.                                         *)
Produced(c) == UNION {{c.graph[j].outs[k] : k \in 1..Len(c.graph[j].outs)} : j \in 1..Len(c.graph)}

Consumed(c) == UNION {{c.graph[j].ins[k] : k \in 1..Len(c.graph[j].ins)} : j \in 1..Len(c.graph)}

IsInputStream(c, l) ==
    /\ l.n \in {"in_v", "in_a"}
    /\ l.i + 1 <= Len(c.inputs)
    /\ c.inputs[l.i + 1].kind = (IF l.n = "in_v" THEN "image" ELSE "audio")

Mapped(c) == {c.maps[k] : k \in 1..Len(c.maps)}

GraphWellFormed(c) ==
    /\ \A l \in Consumed(c) : IsInputStream(c, l) \/ l \in Produced(c)
    /\ \A l \in Produced(c) : l \in Consumed(c) \/ l \in Mapped(c)
    /\ Mapped(c) \subseteq Produced(c)

-----------------------------------------------------------------------------
(* The environment of the node *)

\* job ids (sheet rows) the node is invoked for
Rows == {2, 3}

Paths == {VideoPath(r) : r \in Rows} \cup {AssPath(r) : r \in Rows}

NoFile == [kind |-> "none", run |-> 0]

\* statuses of columns 5 and 7 of the sheet
NotUploaded == "NOT-UPLOADED"
GitReady == "GIT_READY"

\* the state dict main() builds, with the script and the images of the earlier nodes
FreshState(row, scenes, n_images, topic) ==
    [row_index |-> row, isvideogenerated |-> FALSE, final_video_path |-> <<>>,
     image_paths |-> [i \in 1..n_images |-> <<"row", row, "scene", i>>],
     scenes |-> scenes, topic_comment |-> topic]

NoAudio == [selected_music |-> FALSE, audio_filter |-> <<>>]

NoAlignment ==
    [characters |-> <<>>, character_start_times_seconds |-> <<>>,
     character_end_times_seconds |-> <<>>]

\* the outcome of the run before the current one, as its caller saw it
NoPrev == [row |-> 0, pc |-> "idle", isvideogenerated |-> FALSE, final_video_path |-> <<>>,
           hit |-> FALSE]

NoHist ==
    [encoder_calls |-> 0, probe_calls |-> 0, sync_calls |-> 0, enc_rc |-> None,
     stages |-> <<>>, video0 |-> NoFile, prev |-> NoPrev, git_fault |-> FALSE]

\* the working repository with nothing staged and no commit waiting to be pushed
NoRepo == [index |-> {}, commits |-> {}]

\* no second worker
NoOther == [pc |-> "none"]

\* the None that image_gen leaves in image_paths for an image it could not make
NoImage == <<"None">>

\* no pipeline around the node
NoPipeline == [node |-> "none"]

\* no early node is in execution
NoLocal == [node |-> "none"]

\* an alignment of the characters chars, each lasting dur ticks, gap ticks apart, from t0
Aligned(chars, t0, dur, gap) ==
    [characters |-> chars,
     character_start_times_seconds |-> [i \in 1..Len(chars) |-> t0 + (i - 1) * (dur + gap)],
     character_end_times_seconds |-> [i \in 1..Len(chars) |-> t0 + (i - 1) * (dur + gap) + dur]]

-----------------------------------------------------------------------------
(* Inputs the model draws *)

\* Scene_Duration values of a script, in seconds
SceneDurations == {0, 3, 5}

\* what ffprobe prints for the voice track: 0 s, 12 s, 12.3456 s
ProbeDurations == {0, 12 * TicksPerSec, 123456}

\* state["topic_comment"]: empty (the default text is used) or set by script_gen
TopicComments == {"", "comment science"}

\* scripts and voice lengths of the jobs the node is run on
JobScenes == {<<>>, <<5, 5, 5>>, <<3, 5>>}
JobProbeDurations == {0, 12 * TicksPerSec}

\* alignment_row_<id>.json as audio_gen left it: absent, not JSON, or an alignment
JobAlignmentFiles ==
    {[kind |-> "missing", data |-> NoAlignment],
     [kind |-> "corrupt", data |-> NoAlignment],
     [kind |-> "json", data |-> NoAlignment],
     [kind |-> "json", data |-> Aligned(<<"a", "!", " ", "b", " ">>, 1000, 1000, 0)]}

\* characters of the alignments enumerated exhaustively
Alphabet == {"a", " ", "!", "-"}

\* per-character timing of an alignment: start of the first character, duration
\* of a character and gap to the next one (negative: the characters overlap)
Timings ==
    {[t0 |-> 0, dur |-> 1000, gap |-> 0],
     [t0 |-> 1000, dur |-> 1000, gap |-> 0],
     [t0 |-> 1000, dur |-> 935, gap |-> 0],
     [t0 |-> 1000, dur |-> 1000, gap |-> 70],
     [t0 |-> 1000, dur |-> 1000, gap |-> -300]}

\* longer texts: five words (a chunk of max_words and one more), and "HI THERE!"
ScenarioTexts ==
    {<<"a", " ", "a", " ", "a", " ", "a", " ", "b", " ">>,
     <<"H", "I", " ", "T", "H", "E", "R", "E", "!">>}

AlignmentInputs ==
    {Aligned(chars, tm.t0, tm.dur, tm.gap) :
        chars \in SeqsUpTo(Alphabet, MaxChars) \cup ScenarioTexts, tm \in Timings}

\* the first lc characters, ls start times and le end times of an alignment
Reshaped(ad, lc, ls, le) ==
    [characters |-> SubSeq(ad.characters, 1, lc),
     character_start_times_seconds |-> SubSeq(ad.character_start_times_seconds, 1, ls),
     character_end_times_seconds |-> SubSeq(ad.character_end_times_seconds, 1, le)]

\* alignment files whose three lists differ in length: each list is one entry
\* short or complete, over every text of letters and spaces of MaxMalformed
\* characters
MalformedAlignments ==
    LET lens == (MaxMalformed - 1)..MaxMalformed
        cuts == {c \in lens \X lens \X lens : ~(c[1] = c[2] /\ c[2] = c[3])}
    IN  {Reshaped(Aligned(chars, 1000, 1000, 0), c[1], c[2], c[3]) :
            chars \in {t \in SeqsUpTo({"a", " "}, MaxMalformed) : Len(t) = MaxMalformed},
            c \in cuts}

-----------------------------------------------------------------------------
(* video_stitching_slideshow, one action per section of the function *)

\* state.get("topic_comment") or "LIKE & FOLLOW FOR MORE!"
TopicOf(st) == IF st.topic_comment = "" THEN "LIKE & FOLLOW FOR MORE!" ELSE st.topic_comment

Terminal == {"done", "failed", "crashed"}

Enter(stage) == [hist EXCEPT !.stages = Append(@, stage)]

\* the handlers of lines 198-203 for an exception whose handler completes
Failed(h) ==
    /\ state' = [state EXCEPT !.isvideogenerated = FALSE]
    /\ pc' = "failed"
    /\ hist' = h

\* the graph runs the node on the state main() built (main.py 150-153, 168-182)
Invoke(row, scenes, n_images, topic) ==
    /\ pc \in Terminal \cup {"idle"}
    /\ run < MaxRuns
    /\ run' = run + 1
    /\ pc' = "cache"
    /\ state' = FreshState(row, scenes, n_images, topic)
    /\ alignment_data' = NoAlignment
    /\ vo_duration' = 0
    /\ tl' = NoTimeline
    /\ audio' = NoAudio
    /\ ass' = NoAss
    /\ cmd' = NoCmd
    /\ hist' = [NoHist EXCEPT
                   !.video0 = fs[VideoPath(row)],
                   !.prev = [row |-> state.row_index, pc |-> pc,
                             isvideogenerated |-> state.isvideogenerated,
                             final_video_path |-> state.final_video_path,
                             hit |-> hist.video0.kind # "none"]]
    /\ UNCHANGED <<local, fs, sheet, git_remote, git_repo, other, pl>>

\* variant of CacheHit: the cache is never consulted
CacheHitNever(files, st) == FALSE

\* line 105: os.path.exists(final_video_path)
CacheHit(files, st) == files[VideoPath(st.row_index)].kind # "none"

\* variant of CacheCheck: a cache hit writes the url of the row and resets its statuses
CacheCheckMarksRow ==
    /\ pc = "cache"
    /\ hist' = Enter("cache")
    /\ IF CacheHit(fs, state)
       THEN /\ state' = [state EXCEPT !.isvideogenerated = TRUE,
                                      !.final_video_path = VideoPath(state.row_index)]
            /\ sheet' = [sheet EXCEPT ![state.row_index] =
                            [url |-> VideoPath(state.row_index),
                             yt |-> NotUploaded, insta |-> NotUploaded]]
            /\ pc' = "done"
       ELSE /\ pc' = "read_align"
            /\ UNCHANGED <<state, sheet>>
    /\ UNCHANGED <<local, pl, other, git_repo, run, alignment_data, vo_duration, tl, audio, ass, cmd, fs, git_remote>>

\* lines 99-109
CacheCheck ==
    /\ pc = "cache"
    /\ hist' = Enter("cache")
    /\ IF CacheHit(fs, state)
       THEN /\ state' = [state EXCEPT !.isvideogenerated = TRUE,
                                      !.final_video_path = VideoPath(state.row_index)]
            /\ pc' = "done"
       ELSE /\ pc' = "read_align"
            /\ UNCHANGED state
    /\ UNCHANGED <<local, pl, other, git_repo, run, alignment_data, vo_duration, tl, audio, ass, cmd, fs, sheet, git_remote>>

\* lines 118-119: open() and json.load() raise through "except Exception"
ReadAlignment(file) ==
    /\ pc = "read_align"
    /\ IF file.kind = "json"
       THEN /\ alignment_data' = file.data
            /\ pc' = "probe"
            /\ hist' = Enter("read_align")
            /\ UNCHANGED state
       ELSE /\ Failed(Enter("read_align"))
            /\ UNCHANGED alignment_data
    /\ UNCHANGED <<local, pl, other, git_repo, run, vo_duration, tl, audio, ass, cmd, fs, sheet, git_remote>>

\* what becomes of a CalledProcessError e raised by check_output (line 122):
\* the handler of line 198 evaluates e.stderr.decode(), check_output captured no
\* stderr, e.stderr is None, and the AttributeError raised inside the handler
\* leaves the function
ProbeExitNonZero(h) ==
    /\ pc' = "crashed"
    /\ hist' = h
    /\ UNCHANGED state

\* lines 121-122: out is ffprobe's exit status and output
Probe(out) ==
    /\ pc = "probe"
    /\ LET h == [Enter("probe") EXCEPT !.probe_calls = @ + 1]
       IN  CASE out.rc # 0 -> ProbeExitNonZero(h) /\ UNCHANGED vo_duration
             [] out.rc = 0 /\ out.text = "N/A" -> Failed(h) /\ UNCHANGED vo_duration
             [] OTHER -> /\ vo_duration' = out.duration
                         /\ pc' = "timing"
                         /\ hist' = h
                         /\ UNCHANGED state
    /\ UNCHANGED <<local, pl, other, git_repo, run, alignment_data, tl, audio, ass, cmd, fs, sheet, git_remote>>

ProbeOutputs(durations) ==
    {[rc |-> 1, text |-> "", duration |-> 0], [rc |-> 0, text |-> "N/A", duration |-> 0]}
    \cup {[rc |-> 0, text |-> "seconds", duration |-> d] : d \in durations}

\* lines 123-146
Timing ==
    /\ pc = "timing"
    /\ LET t == Timeline(state.scenes, Len(state.image_paths), vo_duration)
       IN  IF t.err
           THEN Failed(Enter("timing")) /\ UNCHANGED tl
           ELSE /\ tl' = t
                /\ pc' = "audio"
                /\ hist' = Enter("timing")
                /\ UNCHANGED state
    /\ UNCHANGED <<local, pl, other, git_repo, run, alignment_data, vo_duration, audio, ass, cmd, fs, sheet, git_remote>>

\* lines 148-165: has_music, whether OUTPUT_DIR holds a bkg_music*.mp3
AudioMastering(has_music) ==
    /\ pc = "audio"
    /\ audio' = [selected_music |-> has_music,
                 audio_filter |-> AudioFilter(has_music, Len(state.image_paths),
                                              tl.total_target_dur)]
    /\ pc' = "captions"
    /\ hist' = Enter("audio")
    /\ UNCHANGED <<local, pl, other, git_repo, run, state, alignment_data, vo_duration, tl, ass, cmd, fs, sheet, git_remote>>

\* line 167: generate_ass_karaoke with its file write (lines 67-68)
Captions ==
    /\ pc = "captions"
    /\ LET r == generate_ass_karaoke(state, alignment_data, TopicOf(state),
                                     pause_at_end, max_words)
       IN  IF r.err
           THEN Failed(Enter("captions")) /\ UNCHANGED <<ass, fs>>
           ELSE /\ ass' = r
                /\ fs' = [fs EXCEPT ![r.ass_path] = [kind |-> "ass", run |-> run]]
                /\ pc' = "encode"
                /\ hist' = Enter("captions")
                /\ UNCHANGED state
    /\ UNCHANGED <<local, pl, other, git_repo, run, alignment_data, vo_duration, tl, audio, cmd, sheet, git_remote>>

\* what ffmpeg -y leaves at the output path when it exits with rc
EncoderLeaves(rc, partial) ==
    IF rc = 0 THEN [kind |-> "full", run |-> run]
    ELSE IF partial THEN [kind |-> "partial", run |-> run]
    ELSE NoFile

\* variant of AfterEncoder: the exit status is not checked
AfterEncoderUnchecked(rc, h) == pc' = "sync" /\ hist' = h /\ UNCHANGED state

\* line 187 (check=True) and lines 189, 198-200: on to section 6 after exit
\* status 0, a CalledProcessError otherwise
AfterEncoder(rc, h) ==
    IF rc = 0
    THEN pc' = "sync" /\ hist' = h /\ UNCHANGED state
    ELSE Failed(h)

\* an input path of the command is None (an image image_gen could not make):
\* subprocess.run raises TypeError before it starts ffmpeg
HasNoneArgument(c) == \E k \in 1..Len(c.inputs) : c.inputs[k].path = NoImage

\* lines 171-187: rc is ffmpeg's exit status; partial, whether a failing ffmpeg
\* had already written to the output path
Encode(rc, partial) ==
    /\ pc = "encode"
    /\ LET c == BuildCmd(state, tl, audio)
           h == [Enter("encode") EXCEPT !.encoder_calls = @ + 1, !.enc_rc = rc]
       IN  IF HasNoneArgument(c)
           THEN /\ cmd' = c
                /\ Failed(Enter("encode"))
                /\ UNCHANGED fs
           ELSE /\ rc = 0 => GraphWellFormed(c)
                /\ cmd' = c
                /\ fs' = [fs EXCEPT ![c.out] = EncoderLeaves(rc, partial)]
                /\ AfterEncoder(rc, h)
    /\ UNCHANGED <<local, pl, other, git_repo, run, alignment_data, vo_duration, tl, audio, ass, sheet, git_remote>>

\* lines 85-90: the cells written before an update raised (3: none raised)
SheetAfter(cells, file_path, row) ==
    [url |-> IF cells >= 1 THEN file_path ELSE row.url,
     yt |-> IF cells >= 2 THEN GitReady ELSE row.yt,
     insta |-> IF cells >= 3 THEN GitReady ELSE row.insta]

\* variant of sync_to_cloud: a failed push or sheet update raises into the node
sync_to_cloud_raising(git_ok, cells) ==
    /\ pc = "sync"
    /\ git_remote' = IF git_ok THEN git_remote \cup {VideoPath(state.row_index)} ELSE git_remote
    /\ sheet' = [sheet EXCEPT ![state.row_index] =
                    SheetAfter(cells, VideoPath(state.row_index), @)]
    /\ IF git_ok /\ cells = 3
       THEN /\ pc' = "publish"
            /\ hist' = [Enter("sync") EXCEPT !.sync_calls = @ + 1]
            /\ UNCHANGED state
       ELSE Failed([Enter("sync") EXCEPT !.sync_calls = @ + 1])
    /\ UNCHANGED <<local, pl, other, git_repo, run, alignment_data, vo_duration, tl, audio, ass, cmd, fs>>

\* line 190, lines 71-95: both try blocks swallow their exceptions
sync_to_cloud(git_ok, cells) ==
    /\ pc = "sync"
    /\ git_remote' = IF git_ok THEN git_remote \cup {VideoPath(state.row_index)} ELSE git_remote
    /\ sheet' = [sheet EXCEPT ![state.row_index] =
                    SheetAfter(cells, VideoPath(state.row_index), @)]
    /\ pc' = "publish"
    /\ hist' = [Enter("sync") EXCEPT !.sync_calls = @ + 1]
    /\ UNCHANGED <<local, pl, other, git_repo, run, state, alignment_data, vo_duration, tl, audio, ass, cmd, fs>>

\* variant of Publish: the caption file is left in place
PublishKeepsCaptions ==
    /\ pc = "publish"
    /\ state' = [state EXCEPT !.final_video_path = VideoPath(state.row_index),
                              !.isvideogenerated = TRUE]
    /\ pc' = "done"
    /\ hist' = Enter("publish")
    /\ UNCHANGED <<local, pl, other, git_repo, run, alignment_data, vo_duration, tl, audio, ass, cmd, fs, sheet, git_remote>>

\* lines 191-196
Publish ==
    /\ pc = "publish"
    /\ state' = [state EXCEPT !.final_video_path = VideoPath(state.row_index),
                              !.isvideogenerated = TRUE]
    /\ fs' = [fs EXCEPT ![ass.ass_path] = NoFile]
    /\ pc' = "done"
    /\ hist' = Enter("publish")
    /\ UNCHANGED <<local, pl, other, git_repo, run, alignment_data, vo_duration, tl, audio, ass, cmd, sheet, git_remote>>

Init ==
    /\ pc = "idle"
    /\ run = 0
    /\ state = FreshState(2, <<>>, 0, "")
    /\ alignment_data = NoAlignment
    /\ vo_duration = 0
    /\ tl = NoTimeline
    /\ audio = NoAudio
    /\ ass = NoAss
    /\ cmd = NoCmd
    /\ fs = [p \in Paths |-> NoFile]
    /\ sheet = [r \in Rows |-> [url |-> <<>>, yt |-> NotUploaded, insta |-> NotUploaded]]
    /\ git_remote = {}
    /\ git_repo = NoRepo
    /\ other = NoOther
    /\ pl = NoPipeline
    /\ local = NoLocal
    /\ hist = NoHist

Next ==
    \/ \E row \in Rows, scenes \in JobScenes, topic \in TopicComments :
          \E n_images \in 0..(Len(scenes) + 1) : Invoke(row, scenes, n_images, topic)
    \/ CacheCheck
    \/ \E file \in JobAlignmentFiles : ReadAlignment(file)
    \/ \E out \in ProbeOutputs(JobProbeDurations) : Probe(out)
    \/ Timing
    \/ \E has_music \in BOOLEAN : AudioMastering(has_music)
    \/ Captions
    \/ \E rc \in {0, 1}, partial \in BOOLEAN : Encode(rc, partial)
    \/ \E git_ok \in BOOLEAN, cells \in 0..3 : sync_to_cloud(git_ok, cells)
    \/ Publish

Spec == Init /\ [][Next]_vars

-----------------------------------------------------------------------------
(* The timing section on every scene list: the node stands before line 123 *)
(* of its first run, with any script, number of images and voice length.   *)

InitTimeline ==
    /\ pc = "timing"
    /\ run = 1
    /\ \E scenes \in SeqsUpTo(SceneDurations, MaxScenes), n_images \in 0..MaxScenes :
          state = FreshState(2, scenes, n_images, "")
    /\ alignment_data = Aligned(<<"a", "!", " ", "b", " ">>, 1000, 1000, 0)
    /\ vo_duration \in ProbeDurations
    /\ tl = NoTimeline
    /\ audio = NoAudio
    /\ ass = NoAss
    /\ cmd = NoCmd
    /\ fs = [p \in Paths |-> NoFile]
    /\ sheet = [r \in Rows |-> [url |-> <<>>, yt |-> NotUploaded, insta |-> NotUploaded]]
    /\ git_remote = {}
    /\ git_repo = NoRepo
    /\ other = NoOther
    /\ pl = NoPipeline
    /\ local = NoLocal
    /\ hist = [NoHist EXCEPT !.stages = <<"cache", "read_align", "probe">>, !.probe_calls = 1]

NextTimeline ==
    \/ Timing
    \/ \E has_music \in BOOLEAN : AudioMastering(has_music)
    \/ Captions
    \/ \E rc \in {0, 1}, partial \in BOOLEAN : Encode(rc, partial)
    \/ \E git_ok \in BOOLEAN, cells \in 0..3 : sync_to_cloud(git_ok, cells)
    \/ Publish

SpecTimeline == InitTimeline /\ [][NextTimeline]_vars

-----------------------------------------------------------------------------
(* The caption builder on every alignment: the node stands before line 167 *)

InitKaraoke ==
    /\ pc = "captions"
    /\ run = 1
    /\ \E topic \in TopicComments : state = FreshState(2, <<5, 5, 5>>, 3, topic)
    /\ alignment_data \in AlignmentInputs \cup MalformedAlignments
    /\ vo_duration = 12 * TicksPerSec
    /\ tl = Timeline(<<5, 5, 5>>, 3, 12 * TicksPerSec)
    /\ audio = [selected_music |-> FALSE,
                audio_filter |-> AudioFilter(FALSE, 3, TotalTargetDur(12 * TicksPerSec))]
    /\ ass = NoAss
    /\ cmd = NoCmd
    /\ fs = [p \in Paths |-> NoFile]
    /\ sheet = [r \in Rows |-> [url |-> <<>>, yt |-> NotUploaded, insta |-> NotUploaded]]
    /\ git_remote = {}
    /\ git_repo = NoRepo
    /\ other = NoOther
    /\ pl = NoPipeline
    /\ local = NoLocal
    /\ hist = [NoHist EXCEPT !.stages = <<"cache", "read_align", "probe", "timing", "audio">>,
                             !.probe_calls = 1]

NextKaraoke == Captions

SpecKaraoke == InitKaraoke /\ [][NextKaraoke]_vars

-----------------------------------------------------------------------------
(* Two worker processes, one job each, on the same OUTPUT_DIR, working       *)
(* repository and sheet.  The variables pc .. hist are the locals of the     *)
(* process that is running; other holds those of the process that is not.    *)
(* sync_to_cloud is taken apart into its git commands and its sheet update,  *)
(* between which the other process can run.                                  *)

\* the locals of the running process
Locals ==
    [pc |-> pc, run |-> run, state |-> state, alignment_data |-> alignment_data,
     vo_duration |-> vo_duration, tl |-> tl, audio |-> audio, ass |-> ass, cmd |-> cmd,
     hist |-> hist]

\* the scheduler takes the processor from one process and gives it to the other
Switch ==
    /\ other.pc # "none"
    /\ other' = Locals
    /\ pc' = other.pc
    /\ run' = other.run
    /\ state' = other.state
    /\ alignment_data' = other.alignment_data
    /\ vo_duration' = other.vo_duration
    /\ tl' = other.tl
    /\ audio' = other.audio
    /\ ass' = other.ass
    /\ cmd' = other.cmd
    /\ hist' = other.hist
    /\ UNCHANGED <<local, fs, sheet, git_remote, git_repo, pl>>

\* lines 80-81: an exception in the first try block skips the git commands left
GitSkipped(env_ok) ==
    /\ pc' = "sheet_update"
    /\ hist' = [hist EXCEPT !.git_fault = @ \/ ~env_ok]

\* line 76: git add <file_path>; env_ok, whether git could run at all
GitAdd(env_ok) ==
    /\ pc = "sync"
    /\ IF env_ok
       THEN /\ git_repo' = [git_repo EXCEPT !.index = @ \cup {VideoPath(state.row_index)}]
            /\ pc' = "git_commit"
            /\ UNCHANGED hist
       ELSE GitSkipped(env_ok) /\ UNCHANGED git_repo
    /\ UNCHANGED <<local, pl, other, run, state, alignment_data, vo_duration, tl, audio, ass, cmd, fs, sheet, git_remote>>

\* line 77: git commit records the whole index; with nothing staged it exits 1
GitCommit(env_ok) ==
    /\ pc = "git_commit"
    /\ IF env_ok /\ git_repo.index # {}
       THEN /\ git_repo' = [index |-> {}, commits |-> git_repo.commits \cup git_repo.index]
            /\ pc' = "git_push"
            /\ UNCHANGED hist
       ELSE GitSkipped(env_ok) /\ UNCHANGED git_repo
    /\ UNCHANGED <<local, pl, other, run, state, alignment_data, vo_duration, tl, audio, ass, cmd, fs, sheet, git_remote>>

\* line 78: git push sends every commit the remote branch lacks
GitPush(env_ok) ==
    /\ pc = "git_push"
    /\ IF env_ok
       THEN /\ git_remote' = git_remote \cup git_repo.commits
            /\ git_repo' = [git_repo EXCEPT !.commits = {}]
       ELSE UNCHANGED <<git_remote, git_repo>>
    /\ GitSkipped(env_ok)
    /\ UNCHANGED <<local, pl, other, run, state, alignment_data, vo_duration, tl, audio, ass, cmd, fs, sheet>>

\* lines 83-95: the second try block of sync_to_cloud
SheetUpdate(cells) ==
    /\ pc = "sheet_update"
    /\ sheet' = [sheet EXCEPT ![state.row_index] =
                    SheetAfter(cells, VideoPath(state.row_index), @)]
    /\ pc' = "publish"
    /\ hist' = [Enter("sync") EXCEPT !.sync_calls = @ + 1]
    /\ UNCHANGED <<local, pl, other, git_repo, run, state, alignment_data, vo_duration, tl, audio, ass, cmd, fs, git_remote>>

\* the job of a worker: three scenes with their images
WorkerState(row) == FreshState(row, <<5, 5, 5>>, 3, "")

\* a worker that has just been started on row, as the run-th process
WorkerLocals(row, k) ==
    [pc |-> "cache", run |-> k, state |-> WorkerState(row), alignment_data |-> NoAlignment,
     vo_duration |-> 0, tl |-> NoTimeline, audio |-> NoAudio, ass |-> NoAss, cmd |-> NoCmd,
     hist |-> NoHist]

InitTwoJobs ==
    /\ pc = "cache"
    /\ run = 1
    /\ state = WorkerState(2)
    /\ alignment_data = NoAlignment
    /\ vo_duration = 0
    /\ tl = NoTimeline
    /\ audio = NoAudio
    /\ ass = NoAss
    /\ cmd = NoCmd
    /\ fs = [p \in Paths |-> NoFile]
    /\ sheet = [r \in Rows |-> [url |-> <<>>, yt |-> NotUploaded, insta |-> NotUploaded]]
    /\ git_remote = {}
    /\ git_repo = NoRepo
    /\ hist = NoHist
    /\ other = WorkerLocals(3, 2)
    /\ pl = NoPipeline
    /\ local = NoLocal

\* the alignment file and the voice track of both jobs are in order
WorkerAlignmentFiles == {f \in JobAlignmentFiles : f.kind = "json" /\ f.data # NoAlignment}

NextTwoJobs ==
    \/ Switch
    \/ CacheCheck
    \/ \E file \in WorkerAlignmentFiles : ReadAlignment(file)
    \/ \E out \in ProbeOutputs({12 * TicksPerSec}) : Probe(out)
    \/ Timing
    \/ \E has_music \in {FALSE} : AudioMastering(has_music)
    \/ Captions
    \/ \E rc \in {0, 1}, partial \in BOOLEAN : Encode(rc, partial)
    \/ \E env_ok \in BOOLEAN : GitAdd(env_ok)
    \/ \E env_ok \in BOOLEAN : GitCommit(env_ok)
    \/ \E env_ok \in BOOLEAN : GitPush(env_ok)
    \/ \E cells \in 0..3 : SheetUpdate(cells)
    \/ Publish

SpecTwoJobs == InitTwoJobs /\ [][NextTwoJobs]_vars

-----------------------------------------------------------------------------
(* The pipeline of main.py around the node: main() picks a row, the compiled *)
(* graph runs script_gen, audio_gen, image_gen, assembly and upload along    *)
(* its edges, and video_upload_node publishes the video.  The three early    *)
(* nodes are taken by their outcome only.                                    *)

Uploaded == "UPLOADED"

\* main.py 62-66: the statuses are compared with 'GIT-READY' and 'UPLOADED'
NeedsUpload(r) ==
    \/ sheet[r].yt \notin {"GIT-READY", Uploaded}
    \/ sheet[r].insta \notin {"GIT-READY", Uploaded}

\* the scenes of the script script_gen produces
PipelineScenes == <<3, 5>>

IdlePipeline ==
    [node |-> "idle", runs |-> 0, row |-> 2,
     isscriptgenerated |-> FALSE, isvoicegenerated |-> FALSE, isimagesgenerated |-> FALSE,
     image_paths |-> <<>>, isvideouploaded |-> FALSE,
     up |-> "none", youtube_status |-> "", insta_status |-> "",
     yt_attempts |-> 0, insta_attempts |-> 0, yt_at_insta |-> "", failed_step |-> "none",
     was_uploaded |-> {}, reuploads |-> 0]

\* main(), lines 158-182: a process starts, on a host that kept OUTPUT_DIR or
\* on a fresh one (config.py creates the directory), picks a pending row and
\* builds the initial state
StartPipeline(row, fresh_host) ==
    /\ pl.node \in {"idle", "end"}
    /\ pl.runs < MaxPipelineRuns
    /\ NeedsUpload(row)
    /\ pl' = [IdlePipeline EXCEPT !.node = "script_gen", !.runs = pl.runs + 1, !.row = row,
                                  !.was_uploaded = pl.was_uploaded,
                                  !.reuploads = pl.reuploads]
    /\ fs' = IF fresh_host THEN [p \in Paths |-> NoFile] ELSE fs
    /\ UNCHANGED <<local, pc, run, state, alignment_data, vo_duration, tl, audio, ass, cmd,
                   sheet, git_remote, hist, git_repo, other>>

\* script_generation: isscriptgenerated is its only outcome the graph could use
ScriptGen(ok) ==
    /\ pl.node = "script_gen"
    /\ pl' = [pl EXCEPT !.node = "audio_gen", !.isscriptgenerated = ok]
    /\ UNCHANGED <<local, pc, run, state, alignment_data, vo_duration, tl, audio, ass, cmd,
                   fs, sheet, git_remote, hist, git_repo, other>>

\* audio_generation: returns the state as it is when the script is missing
AudioGen(ok) ==
    /\ pl.node = "audio_gen"
    /\ pl' = [pl EXCEPT !.node = "image_gen",
                        !.isvoicegenerated = pl.isscriptgenerated /\ ok]
    /\ UNCHANGED <<local, pc, run, state, alignment_data, vo_duration, tl, audio, ass, cmd,
                   fs, sheet, git_remote, hist, git_repo, other>>

\* image_generation: returns the state as it is when the voice is missing;
\* otherwise image_paths has one entry per scene, None where no image was made
ImageGen(ok) ==
    /\ pl.node = "image_gen"
    /\ pl' = IF ~pl.isvoicegenerated
             THEN [pl EXCEPT !.node = "assembly_entry"]
             ELSE [pl EXCEPT !.node = "assembly_entry",
                             !.isimagesgenerated = ok,
                             !.image_paths =
                                [i \in 1..Len(PipelineScenes) |->
                                    IF ok THEN <<"row", pl.row, "scene", i>> ELSE NoImage]]
    /\ UNCHANGED <<local, pc, run, state, alignment_data, vo_duration, tl, audio, ass, cmd,
                   fs, sheet, git_remote, hist, git_repo, other>>

\* the edge image_gen -> assembly (main.py 152): the node is called with the
\* state as the early nodes left it
EnterAssembly ==
    /\ pl.node = "assembly_entry"
    /\ pl' = [pl EXCEPT !.node = "assembly"]
    /\ run' = run + 1
    /\ pc' = "cache"
    /\ state' = [FreshState(pl.row, IF pl.isscriptgenerated THEN PipelineScenes ELSE <<>>, 0, "")
                    EXCEPT !.image_paths = pl.image_paths]
    /\ alignment_data' = NoAlignment
    /\ vo_duration' = 0
    /\ tl' = NoTimeline
    /\ audio' = NoAudio
    /\ ass' = NoAss
    /\ cmd' = NoCmd
    /\ hist' = [NoHist EXCEPT !.video0 = fs[VideoPath(pl.row)]]
    /\ UNCHANGED <<local, fs, sheet, git_remote, git_repo, other>>

\* the edge assembly -> upload (main.py 153); an exception that left the node
\* ends the graph run in main() (lines 195-197)
AssemblyReturns ==
    /\ pl.node = "assembly"
    /\ pc \in Terminal
    /\ pl' = IF pc = "crashed"
             THEN [pl EXCEPT !.node = "end"]
             ELSE [pl EXCEPT !.node = "upload", !.up = "start"]
    /\ UNCHANGED <<local, pc, run, state, alignment_data, vo_duration, tl, audio, ass, cmd,
                   fs, sheet, git_remote, hist, git_repo, other>>

\* video_upload_node returns the state with isvideouploaded = False
UploadReturnsFalse(p, step) ==
    [p EXCEPT !.node = "end", !.up = "returned", !.isvideouploaded = FALSE,
              !.failed_step = step]

\* final_upload.py 203-214: the statuses of the row are read from the sheet
UploadStart(sheet_ok) ==
    /\ pl.node = "upload" /\ pl.up = "start"
    /\ pl' = IF ~sheet_ok THEN UploadReturnsFalse(pl, "sheet")
             ELSE [pl EXCEPT !.youtube_status = sheet[pl.row].yt,
                             !.insta_status = sheet[pl.row].insta,
                             !.isvideouploaded = FALSE,
                             !.up = IF sheet[pl.row].yt # Uploaded \/ sheet[pl.row].insta # Uploaded
                                    THEN "meta" ELSE "verify"]
    /\ UNCHANGED <<local, pc, run, state, alignment_data, vo_duration, tl, audio, ass, cmd,
                   fs, sheet, git_remote, hist, git_repo, other>>

\* final_upload.py 215-216
Metadata(ok) ==
    /\ pl.node = "upload" /\ pl.up = "meta"
    /\ pl' = IF ~ok THEN UploadReturnsFalse(pl, "meta")
             ELSE [pl EXCEPT !.up = "youtube"]
    /\ UNCHANGED <<local, pc, run, state, alignment_data, vo_duration, tl, audio, ass, cmd,
                   fs, sheet, git_remote, hist, git_repo, other>>

\* variant of AfterYouTubeFailure: the node goes on to the Instagram step
AfterYouTubeFailureGoesOn(p) == [p EXCEPT !.up = "insta", !.failed_step = "youtube"]

\* final_upload.py 227-228
AfterYouTubeFailure(p) == UploadReturnsFalse(p, "youtube")

\* final_upload.py 219-228: result is what upload_to_youtube returns (it can
\* succeed only with a file at Video_Row_<id>.mp4); cells_ok, whether the sheet
\* took the updates
YouTubeStep(result, cells_ok) ==
    /\ pl.node = "upload" /\ pl.up = "youtube"
    /\ IF pl.youtube_status = Uploaded
       THEN /\ pl' = [pl EXCEPT !.up = "insta"]
            /\ UNCHANGED sheet
       ELSE LET p == [pl EXCEPT !.yt_attempts = @ + 1,
                                !.reuploads = @ + (IF result = "SUCCESS" /\ pl.row \in pl.was_uploaded
                                                    THEN 1 ELSE 0)]
            IN  /\ result = "SUCCESS" => fs[VideoPath(pl.row)].kind # "none"
                /\ IF result # "SUCCESS"
                   THEN pl' = AfterYouTubeFailure(p) /\ UNCHANGED sheet
                   ELSE IF ~cells_ok
                   THEN pl' = UploadReturnsFalse(p, "sheet") /\ UNCHANGED sheet
                   ELSE /\ sheet' = [sheet EXCEPT ![pl.row].yt = Uploaded]
                        /\ pl' = [p EXCEPT !.up = "insta", !.youtube_status = Uploaded,
                                           !.was_uploaded = @ \cup {pl.row}]
    /\ UNCHANGED <<local, pc, run, state, alignment_data, vo_duration, tl, audio, ass, cmd,
                   fs, git_remote, hist, git_repo, other>>

\* final_upload.py 231-237
InstaStep(result, cells_ok) ==
    /\ pl.node = "upload" /\ pl.up = "insta"
    /\ IF pl.insta_status = Uploaded
       THEN /\ pl' = [pl EXCEPT !.up = "verify"]
            /\ UNCHANGED sheet
       ELSE LET p == [pl EXCEPT !.insta_attempts = @ + 1, !.yt_at_insta = sheet[pl.row].yt]
            IN  IF result # "SUCCESS"
                THEN pl' = UploadReturnsFalse(p, "insta") /\ UNCHANGED sheet
                ELSE IF ~cells_ok
                THEN pl' = UploadReturnsFalse(p, "sheet") /\ UNCHANGED sheet
                ELSE /\ sheet' = [sheet EXCEPT ![pl.row].insta = Uploaded]
                     /\ pl' = [p EXCEPT !.up = "verify", !.insta_status = Uploaded]
    /\ UNCHANGED <<local, pc, run, state, alignment_data, vo_duration, tl, audio, ass, cmd,
                   fs, git_remote, hist, git_repo, other>>

\* final_upload.py 239-248
Verify(sheet_ok) ==
    /\ pl.node = "upload" /\ pl.up = "verify"
    /\ pl' = IF ~sheet_ok THEN UploadReturnsFalse(pl, "sheet")
             ELSE [pl EXCEPT !.node = "end", !.up = "returned",
                             !.isvideouploaded = (sheet[pl.row].yt = Uploaded
                                                  /\ sheet[pl.row].insta = Uploaded)]
    /\ UNCHANGED <<local, pc, run, state, alignment_data, vo_duration, tl, audio, ass, cmd,
                   fs, sheet, git_remote, hist, git_repo, other>>

InitPipeline ==
    /\ pc = "idle"
    /\ run = 0
    /\ state = FreshState(2, <<>>, 0, "")
    /\ alignment_data = NoAlignment
    /\ vo_duration = 0
    /\ tl = NoTimeline
    /\ audio = NoAudio
    /\ ass = NoAss
    /\ cmd = NoCmd
    /\ fs = [p \in Paths |-> NoFile]
    /\ sheet = [r \in Rows |-> [url |-> <<>>, yt |-> NotUploaded, insta |-> NotUploaded]]
    /\ git_remote = {}
    /\ git_repo = NoRepo
    /\ hist = NoHist
    /\ other = NoOther
    /\ pl = IdlePipeline
    /\ local = NoLocal

\* what the platforms answer
UploadResults == {"SUCCESS", "FAILED"}

\* the alignment file of a pipeline job: written by audio_gen, or absent
PipelineAlignmentFiles == {f \in JobAlignmentFiles : f.kind = "missing" \/ f.data # NoAlignment}

NextPipeline ==
    \/ \E row \in Rows, fresh_host \in BOOLEAN : StartPipeline(row, fresh_host)
    \/ \E ok \in BOOLEAN : ScriptGen(ok)
    \/ \E ok \in BOOLEAN : AudioGen(ok)
    \/ \E ok \in BOOLEAN : ImageGen(ok)
    \/ EnterAssembly
    \/ CacheCheck
    \/ \E file \in PipelineAlignmentFiles : ReadAlignment(file)
    \/ \E out \in ProbeOutputs({12 * TicksPerSec}) : Probe(out)
    \/ Timing
    \/ \E has_music \in {FALSE} : AudioMastering(has_music)
    \/ Captions
    \/ \E rc \in {0, 1}, partial \in BOOLEAN : Encode(rc, partial)
    \/ \E git_ok \in BOOLEAN, cells \in {0, 3} : sync_to_cloud(git_ok, cells)
    \/ Publish
    \/ AssemblyReturns
    \/ \E sheet_ok \in BOOLEAN : UploadStart(sheet_ok)
    \/ \E ok \in BOOLEAN : Metadata(ok)
    \/ \E result \in UploadResults, cells_ok \in BOOLEAN : YouTubeStep(result, cells_ok)
    \/ \E result \in UploadResults, cells_ok \in BOOLEAN : InstaStep(result, cells_ok)
    \/ \E sheet_ok \in BOOLEAN : Verify(sheet_ok)

SpecPipeline == InitPipeline /\ [][NextPipeline]_vars

-----------------------------------------------------------------------------
(* image_generation (nodes/image_gen.py) step by step: the tasks it creates, *)
(* the semaphore they share, the retries of each worker, the gather, the     *)
(* fallback and the final verification.  The locals are the fields of local. *)

\* generate_single_image_async, line 18
retries == 5

\* asyncio.Semaphore(2), line 85
SemaphoreValue == 2

\* row_<id>_scene_<i>.png of the row the stage works on
ImagePath(i) == <<"row", 2, "scene", i>>

\* a scene without a task
NoWorker == [ph |-> "none", attempt |-> 0, posts |-> 0, result |-> NoImage,
             got400 |-> FALSE, late |-> 0]

\* what the API answers to one POST: a status; "raise" is a request, or a 200 body, that raises
Responses == {"200", "429", "400", "500", "raise"}

\* the for loop of line 30 at iteration a: the next POST, or line 60
Loop(w, a) ==
    IF a < retries
    THEN [w EXCEPT !.ph = "posted", !.attempt = a, !.posts = @ + 1,
                   !.late = @ + (IF w.got400 THEN 1 ELSE 0)]
    ELSE [w EXCEPT !.ph = "grace", !.result = NoImage]

\* the tasks that hold the semaphore (lines 88-93)
Holders(l) == {i \in 1..l.n : l.w[i].ph \in {"posted", "backoff", "grace"}}

\* the requests in flight
InFlight(l) == {i \in 1..l.n : l.w[i].ph = "posted"}

\* variant of SemaphoreFree: nothing limits the tasks
SemaphoreFreeAlways(l) == TRUE

\* async with semaphore, line 88
SemaphoreFree(l) == Cardinality(Holders(l)) < SemaphoreValue

\* the scenes of seq paths that have no image
Missing(paths) == {i \in 1..Len(paths) : paths[i] = NoImage}

\* variant of FallbackStep: only the previous scene's image is borrowed
FallbackStepPrevOnly(f, i) ==
    IF i > 1 /\ f.image_paths[i - 1] # NoImage
    THEN [image_paths |-> [f.image_paths EXCEPT ![i] = ImagePath(i)],
          files |-> [f.files EXCEPT ![i] = f.files[i - 1]]]
    ELSE f

\* lines 128-139 for one missing scene i: shutil.copy and the new path
FallbackStep(f, i) ==
    IF i > 1 /\ f.image_paths[i - 1] # NoImage
    THEN [image_paths |-> [f.image_paths EXCEPT ![i] = ImagePath(i)],
          files |-> [f.files EXCEPT ![i] = f.files[i - 1]]]
    ELSE IF i < Len(f.image_paths) /\ f.image_paths[i + 1] # NoImage
    THEN [image_paths |-> [f.image_paths EXCEPT ![i] = ImagePath(i)],
          files |-> [f.files EXCEPT ![i] = f.files[i + 1]]]
    ELSE f

RECURSIVE FallbackLoop(_, _, _)
\* the loop of line 128 over the scenes of missing from scene i on
FallbackLoop(f, missing, i) ==
    IF i > Len(f.image_paths) THEN f
    ELSE FallbackLoop(IF i \in missing THEN FallbackStep(f, i) ELSE f, missing, i + 1)

\* line 142: all(state["image_paths"])
AllPaths(paths) == \A i \in 1..Len(paths) : paths[i] # NoImage

\* the state of the stage when the graph calls it: n scenes, the image files
\* of earlier runs in OUTPUT_DIR
ImageLocals(n, cached, voice) ==
    [node |-> "image_gen", pc |-> "entry", n |-> n, isvoicegenerated |-> voice,
     cached |-> cached,
     files |-> [i \in 1..n |-> IF i \in cached THEN i ELSE 0],
     image_paths |-> <<>>, task_indices |-> <<>>,
     w |-> [i \in 1..n |-> NoWorker],
     missing |-> {}, isimagesgenerated |-> FALSE]

\* lines 65-77
ImageEntry ==
    /\ local.node = "image_gen" /\ local.pc = "entry"
    /\ local' = IF ~local.isvoicegenerated
                THEN [local EXCEPT !.pc = "skipped"]
                ELSE [local EXCEPT !.pc = "dispatch",
                                   !.image_paths = [i \in 1..local.n |-> NoImage]]
    /\ UNCHANGED <<pc, run, state, alignment_data, vo_duration, tl, audio, ass, cmd,
                   fs, sheet, git_remote, hist, git_repo, other, pl>>

RECURSIVE TaskIndices(_, _, _)
\* task_indices of lines 99-110: the scenes i.. of n without a file, in order
TaskIndices(files, i, n) ==
    IF i > n THEN <<>>
    ELSE (IF files[i] = 0 THEN <<i>> ELSE <<>>) \o TaskIndices(files, i + 1, n)

\* lines 99-112: the cache check and one task per scene that has no file
Dispatch ==
    /\ local.node = "image_gen" /\ local.pc = "dispatch"
    /\ LET t == TaskIndices(local.files, 1, local.n)
       IN  local' = [local EXCEPT
                        !.image_paths = [i \in 1..local.n |->
                                            IF local.files[i] # 0 THEN ImagePath(i) ELSE NoImage],
                        !.task_indices = t,
                        !.w = [i \in 1..local.n |->
                                  IF local.files[i] = 0
                                  THEN [NoWorker EXCEPT !.ph = "waiting"] ELSE NoWorker],
                        !.pc = IF t = <<>> THEN "fallback" ELSE "gather"]
    /\ UNCHANGED <<pc, run, state, alignment_data, vo_duration, tl, audio, ass, cmd,
                   fs, sheet, git_remote, hist, git_repo, other, pl>>

\* lines 88-90 and 30-33: task i enters the semaphore and posts its first request
Acquire(i) ==
    /\ local.node = "image_gen" /\ local.pc = "gather"
    /\ i \in 1..local.n /\ local.w[i].ph = "waiting"
    /\ SemaphoreFree(local)
    /\ local' = [local EXCEPT !.w[i] = Loop(@, 0)]
    /\ UNCHANGED <<pc, run, state, alignment_data, vo_duration, tl, audio, ass, cmd,
                   fs, sheet, git_remote, hist, git_repo, other, pl>>

\* lines 33-58: the answer to the request of task i
Respond(i, r) ==
    /\ local.node = "image_gen" /\ local.pc = "gather"
    /\ i \in 1..local.n /\ local.w[i].ph = "posted"
    /\ LET w == local.w[i]
       IN  local' =
                CASE r = "200" ->
                        [local EXCEPT !.w[i] = [w EXCEPT !.ph = "grace", !.result = ImagePath(i)],
                                      !.files[i] = i]
                  [] r = "429" -> [local EXCEPT !.w[i] = [w EXCEPT !.ph = "backoff"]]
                  [] r = "400" -> [local EXCEPT !.w[i] = [w EXCEPT !.ph = "grace",
                                                                  !.result = NoImage,
                                                                  !.got400 = TRUE]]
                  [] r = "500" -> [local EXCEPT !.w[i] = Loop(w, w.attempt + 1)]
                  [] r = "raise" -> [local EXCEPT !.w[i] = [w EXCEPT !.ph = "backoff"]]
    /\ UNCHANGED <<pc, run, state, alignment_data, vo_duration, tl, audio, ass, cmd,
                   fs, sheet, git_remote, hist, git_repo, other, pl>>

\* lines 47 and 58: the sleep of task i ends and the loop goes on
Wake(i) ==
    /\ local.node = "image_gen" /\ local.pc = "gather"
    /\ i \in 1..local.n /\ local.w[i].ph = "backoff"
    /\ local' = [local EXCEPT !.w[i] = Loop(@, @.attempt + 1)]
    /\ UNCHANGED <<pc, run, state, alignment_data, vo_duration, tl, audio, ass, cmd,
                   fs, sheet, git_remote, hist, git_repo, other, pl>>

\* lines 92-93: the grace sleep of task i ends, the semaphore is released
Release(i) ==
    /\ local.node = "image_gen" /\ local.pc = "gather"
    /\ i \in 1..local.n /\ local.w[i].ph = "grace"
    /\ local' = [local EXCEPT !.w[i].ph = "finished"]
    /\ UNCHANGED <<pc, run, state, alignment_data, vo_duration, tl, audio, ass, cmd,
                   fs, sheet, git_remote, hist, git_repo, other, pl>>

\* lines 114-119: gather returns when every task has, the results are stored
Gather ==
    /\ local.node = "image_gen" /\ local.pc = "gather"
    /\ \A i \in 1..local.n : local.w[i].ph \in {"none", "finished"}
    /\ local' = [local EXCEPT
                    !.image_paths = [i \in 1..local.n |->
                                        IF local.w[i].ph = "finished" /\ local.w[i].result # NoImage
                                        THEN local.w[i].result ELSE @[i]],
                    !.pc = "fallback"]
    /\ UNCHANGED <<pc, run, state, alignment_data, vo_duration, tl, audio, ass, cmd,
                   fs, sheet, git_remote, hist, git_repo, other, pl>>

\* lines 124-149
Fallback ==
    /\ local.node = "image_gen" /\ local.pc = "fallback"
    /\ LET missing == Missing(local.image_paths)
           f == FallbackLoop([image_paths |-> local.image_paths, files |-> local.files],
                             missing, 1)
       IN  local' = [local EXCEPT !.missing = missing,
                                  !.image_paths = f.image_paths,
                                  !.files = f.files,
                                  !.isimagesgenerated = AllPaths(f.image_paths),
                                  !.pc = "returned"]
    /\ UNCHANGED <<pc, run, state, alignment_data, vo_duration, tl, audio, ass, cmd,
                   fs, sheet, git_remote, hist, git_repo, other, pl>>

InitImages ==
    /\ pc = "idle"
    /\ run = 0
    /\ state = FreshState(2, <<>>, 0, "")
    /\ alignment_data = NoAlignment
    /\ vo_duration = 0
    /\ tl = NoTimeline
    /\ audio = NoAudio
    /\ ass = NoAss
    /\ cmd = NoCmd
    /\ fs = [p \in Paths |-> NoFile]
    /\ sheet = [r \in Rows |-> [url |-> <<>>, yt |-> NotUploaded, insta |-> NotUploaded]]
    /\ git_remote = {}
    /\ git_repo = NoRepo
    /\ hist = NoHist
    /\ other = NoOther
    /\ pl = NoPipeline
    /\ \E n \in 0..MaxImageScenes, voice \in BOOLEAN :
          \E cached \in SUBSET (1..n) : local = ImageLocals(n, cached, voice)

NextImages ==
    \/ ImageEntry
    \/ Dispatch
    \/ \E i \in 1..MaxImageScenes : Acquire(i)
    \/ \E i \in 1..MaxImageScenes, r \in Responses : Respond(i, r)
    \/ \E i \in 1..MaxImageScenes : Wake(i)
    \/ \E i \in 1..MaxImageScenes : Release(i)
    \/ Gather
    \/ Fallback

SpecImages == InitImages /\ [][NextImages]_vars

-----------------------------------------------------------------------------
(* audio_generation (nodes/audio_gen.py) step by step, called once per       *)
(* pipeline process on the files the earlier processes left in OUTPUT_DIR.   *)

\* stop_after_attempt(3), line 18
stop_after_attempt == 3

\* vo_row_<id>.mp3 and alignment_row_<id>.json: absent
NoVoiceFile == [kind |-> "none", run |-> 0]

\* the fields of the state main() builds that the node may write
FreshAudioState == [alignment_data |-> NoVoiceFile, vo_path |-> <<>>, isvoicegenerated |-> FALSE]

\* final_vo_path, line 48
VoPath == <<"vo_row", 2, "mp3">>

\* what one POST to the speech API gives: a full body, a body without
\* 'audio_base64', a body without 'alignment', an HTTPError (429, 5xx), or
\* another exception (timeout, connection)
SpeechResponses == {"ok", "no_audio", "no_alignment", "http_error", "other_error"}

IdleAudio ==
    [node |-> "audio_gen", pc |-> "idle", runs |-> 0, isscriptgenerated |-> FALSE,
     vo |-> NoVoiceFile, al |-> NoVoiceFile, st |-> FreshAudioState,
     entry |-> [vo |-> NoVoiceFile, al |-> NoVoiceFile, st |-> FreshAudioState],
     posts |-> 0, last |-> "none", branch |-> "none", fail_at |-> "none"]

\* the except clause of lines 111-113
AudioFailed(l, where) ==
    [l EXCEPT !.st.isvoicegenerated = FALSE, !.pc = "returned",
              !.branch = "failed", !.fail_at = where]

\* the graph calls the node in a new process (main.py 168-182, 150)
AudioInvoke(script_ok) ==
    /\ local.node = "audio_gen" /\ local.pc \in {"idle", "returned"}
    /\ local.runs < MaxAudioRuns
    /\ local' = [IdleAudio EXCEPT !.pc = "entry", !.runs = local.runs + 1,
                                  !.isscriptgenerated = script_ok,
                                  !.vo = local.vo, !.al = local.al,
                                  !.entry = [vo |-> local.vo, al |-> local.al,
                                             st |-> FreshAudioState]]
    /\ UNCHANGED <<pc, run, state, alignment_data, vo_duration, tl, audio, ass, cmd,
                   fs, sheet, git_remote, hist, git_repo, other, pl>>

\* lines 36-38
AudioEntry ==
    /\ local.node = "audio_gen" /\ local.pc = "entry"
    /\ local' = IF ~local.isscriptgenerated
                THEN [local EXCEPT !.pc = "returned", !.branch = "skipped"]
                ELSE [local EXCEPT !.pc = "cache"]
    /\ UNCHANGED <<pc, run, state, alignment_data, vo_duration, tl, audio, ass, cmd,
                   fs, sheet, git_remote, hist, git_repo, other, pl>>

\* variant of AudioCacheCheck: a cache that does not parse fails the node
AudioCacheCheckStrict ==
    /\ local.node = "audio_gen" /\ local.pc = "cache"
    /\ local' = IF local.vo.kind # "none" /\ local.al.kind # "none"
                THEN IF local.al.kind = "json"
                     THEN [local EXCEPT !.st = [alignment_data |-> local.al, vo_path |-> VoPath,
                                                isvoicegenerated |-> TRUE],
                                        !.pc = "returned", !.branch = "hit"]
                     ELSE AudioFailed(local, "cache")
                ELSE [local EXCEPT !.pc = "prepare"]
    /\ UNCHANGED <<pc, run, state, alignment_data, vo_duration, tl, audio, ass, cmd,
                   fs, sheet, git_remote, hist, git_repo, other, pl>>

\* lines 52-61: json.load of a file that does not parse raises into line 60
AudioCacheCheck ==
    /\ local.node = "audio_gen" /\ local.pc = "cache"
    /\ local' = IF local.vo.kind # "none" /\ local.al.kind # "none"
                THEN IF local.al.kind = "json"
                     THEN [local EXCEPT !.st = [alignment_data |-> local.al, vo_path |-> VoPath,
                                                isvoicegenerated |-> TRUE],
                                        !.pc = "returned", !.branch = "hit"]
                     ELSE [local EXCEPT !.pc = "prepare"]
                ELSE [local EXCEPT !.pc = "prepare"]
    /\ UNCHANGED <<pc, run, state, alignment_data, vo_duration, tl, audio, ass, cmd,
                   fs, sheet, git_remote, hist, git_repo, other, pl>>

\* lines 65-89: the text of the scenes; a scene without 'Voiceover_English' raises
AudioPrepare(ok) ==
    /\ local.node = "audio_gen" /\ local.pc = "prepare"
    /\ local' = IF ok THEN [local EXCEPT !.pc = "api"] ELSE AudioFailed(local, "prepare")
    /\ UNCHANGED <<pc, run, state, alignment_data, vo_duration, tl, audio, ass, cmd,
                   fs, sheet, git_remote, hist, git_repo, other, pl>>

\* lines 92-107 and 17-31: one POST of call_elevenlabs_api and what follows it
AudioPost(r) ==
    /\ local.node = "audio_gen" /\ local.pc = "api"
    /\ LET l == [local EXCEPT !.posts = @ + 1, !.last = r]
           mp3 == [kind |-> "mp3", run |-> local.runs]
           json == [kind |-> "json", run |-> local.runs]
       IN  local' =
              CASE r = "http_error" ->
                      IF l.posts < stop_after_attempt THEN l ELSE AudioFailed(l, "api")
                [] r = "other_error" -> AudioFailed(l, "api")
                [] r = "no_audio" -> AudioFailed(l, "response")
                [] r = "no_alignment" ->
                      AudioFailed([l EXCEPT !.vo = mp3,
                                            !.al = [kind |-> "corrupt", run |-> local.runs]],
                                  "response")
                [] r = "ok" ->
                      [l EXCEPT !.vo = mp3, !.al = json,
                                !.st = [alignment_data |-> json, vo_path |-> VoPath,
                                        isvoicegenerated |-> TRUE],
                                !.pc = "returned", !.branch = "generated"]
    /\ UNCHANGED <<pc, run, state, alignment_data, vo_duration, tl, audio, ass, cmd,
                   fs, sheet, git_remote, hist, git_repo, other, pl>>

\* the files an earlier process, or anything else, left in OUTPUT_DIR
OldVoiceFiles == {NoVoiceFile, [kind |-> "mp3", run |-> 0]}

OldAlignmentFiles == {NoVoiceFile, [kind |-> "json", run |-> 0], [kind |-> "corrupt", run |-> 0]}

InitAudio ==
    /\ pc = "idle"
    /\ run = 0
    /\ state = FreshState(2, <<>>, 0, "")
    /\ alignment_data = NoAlignment
    /\ vo_duration = 0
    /\ tl = NoTimeline
    /\ audio = NoAudio
    /\ ass = NoAss
    /\ cmd = NoCmd
    /\ fs = [p \in Paths |-> NoFile]
    /\ sheet = [r \in Rows |-> [url |-> <<>>, yt |-> NotUploaded, insta |-> NotUploaded]]
    /\ git_remote = {}
    /\ git_repo = NoRepo
    /\ hist = NoHist
    /\ other = NoOther
    /\ pl = NoPipeline
    /\ \E v \in OldVoiceFiles, a \in OldAlignmentFiles :
          local = [IdleAudio EXCEPT !.vo = v, !.al = a]

NextAudio ==
    \/ \E script_ok \in BOOLEAN : AudioInvoke(script_ok)
    \/ AudioEntry
    \/ AudioCacheCheck
    \/ \E ok \in BOOLEAN : AudioPrepare(ok)
    \/ \E r \in SpeechResponses : AudioPost(r)

SpecAudio == InitAudio /\ [][NextAudio]_vars

-----------------------------------------------------------------------------
(* Properties *)

Row == state.row_index

\* the current run found the output artifact at its path when it started
StartedCached == pc # "idle" /\ hist.video0.kind # "none"

\* the stage of the orchestrator a section of the function belongs to
StageOf(p) ==
    CASE p = "cache" -> "CacheCheck"
      [] p \in {"read_align", "probe", "timing", "audio", "captions"} -> "Prepare"
      [] p = "encode" -> "Encode"
      [] p \in {"sync", "publish"} -> "Publish"
      [] p = "done" -> "Done"
      [] p = "failed" -> "Failed"
      [] OTHER -> p

\* C1: a run that starts with Video_Row_<id>.mp4 present ends Done with
\* isvideogenerated = true and final_video_path = that path, runs neither the
\* encoder nor any other section, and leaves the file as it was; the next run
\* in that situation returns the same result.
C1_CacheHitIdempotent ==
    StartedCached =>
        /\ pc \in {"cache", "done"}
        /\ hist.encoder_calls = 0
        /\ fs[VideoPath(Row)] = hist.video0
        /\ pc = "done" =>
              /\ state.isvideogenerated
              /\ state.final_video_path = VideoPath(Row)
              /\ hist.stages = <<"cache">>
              /\ (hist.prev.hit /\ hist.prev.row = Row) =>
                    /\ hist.prev.pc = "done"
                    /\ hist.prev.isvideogenerated = state.isvideogenerated
                    /\ hist.prev.final_video_path = state.final_video_path

\* the third run on a row is the second one in a row that finds the artifact
C1_Witness ==
    /\ pc = "done" /\ run = 3 /\ StartedCached
    /\ hist.prev.hit /\ hist.prev.row = Row
    /\ hist.video0 = [kind |-> "full", run |-> 1]

\* C2: once the encoder has exited non-zero the run is Failed with
\* isvideogenerated = false, the encoder was invoked exactly once, no step of
\* Publish has run (no sync, no final_video_path, no success flag) and nothing
\* of the job is on the git remote or in the sheet.
C2_EncodeFailureOnce ==
    (pc # "idle" /\ hist.enc_rc \notin {None, 0}) =>
        /\ pc = "failed"
        /\ ~state.isvideogenerated
        /\ hist.encoder_calls = 1
        /\ hist.sync_calls = 0
        /\ state.final_video_path = <<>>
        /\ \A k \in 1..Len(hist.stages) : StageOf(hist.stages[k]) # "Publish"
        /\ VideoPath(Row) \notin git_remote
        /\ sheet[Row] = [url |-> <<>>, yt |-> NotUploaded, insta |-> NotUploaded]

C2_Witness == pc = "failed" /\ hist.enc_rc = 1 /\ hist.encoder_calls = 1 /\ run = 2

\* C3 (the claim as stated): after a run that ended in failure the output path
\* holds no file or the very file it held when the run started.
C3_FailedRunLeavesNoNewArtifact ==
    pc \in {"failed", "crashed"} => fs[VideoPath(Row)] \in {NoFile, hist.video0}

\* C4 (the claim as stated): a run never ends with an exception leaving the
\* function, and a run that ends without success returns isvideogenerated = false.
C4_NoExceptionEscapes ==
    /\ pc # "crashed"
    /\ (pc \in Terminal /\ pc # "done") => (pc = "failed" /\ ~state.isvideogenerated)

\* the canonical order of the sections
SectionOrder ==
    <<"cache", "read_align", "probe", "timing", "audio", "captions", "encode", "sync", "publish">>

\* the sections a run has entered are the first ones of the order, in order
InSectionOrder ==
    /\ Len(hist.stages) <= Len(SectionOrder)
    /\ \A k \in 1..Len(hist.stages) : hist.stages[k] = SectionOrder[k]

\* C5 (the claim as stated): the stages occur in the order CacheCheck, Prepare,
\* Encode, Publish, Done; the encoder runs only after probe, timeline, filter
\* graphs and caption file; Publish runs only after exit code 0; and a run that
\* has ended is Done or Failed.
C5_StageOrderAndTerminals ==
    pc # "idle" =>
        /\ InSectionOrder
        /\ hist.encoder_calls > 0 =>
              /\ hist.probe_calls = 1 /\ ~tl.err /\ tl.total_scene_script_dur # 0
              /\ audio.audio_filter # <<>>
              /\ ass.events # <<>>
        /\ (\E k \in 1..Len(hist.stages) : StageOf(hist.stages[k]) = "Publish") =>
              hist.enc_rc = 0
        /\ pc \in Terminal => pc \in {"done", "failed"}

\* the part of C5 that holds of the code: the order of the sections
C5_OrderOnly ==
    pc # "idle" =>
        /\ InSectionOrder
        /\ hist.encoder_calls > 0 =>
              /\ hist.probe_calls = 1 /\ ~tl.err /\ tl.total_scene_script_dur # 0
              /\ audio.audio_filter # <<>>
              /\ ass.events # <<>>
        /\ (\E k \in 1..Len(hist.stages) : StageOf(hist.stages[k]) = "Publish") =>
              hist.enc_rc = 0

\* section 2 has computed the timeline of the current run
TimelineBuilt == ~tl.err /\ tl.total_scene_script_dur # 0

\* C6: in every run that reaches Encode, total_target_dur is the probed voice
\* duration plus the 1.5 s pause, whatever the scenes and the number of images,
\* and the -t output limit is that value printed with three decimals.
C6_TargetDuration ==
    hist.encoder_calls > 0 =>
        /\ tl.total_target_dur = vo_duration + pause_at_end
        /\ cmd.t = RoundDiv(vo_duration + pause_at_end, TicksPerMs)
        /\ 2 * (cmd.t * TicksPerMs - (vo_duration + pause_at_end)) <= TicksPerMs
        /\ 2 * ((vo_duration + pause_at_end) - cmd.t * TicksPerMs) <= TicksPerMs

\* fewer images than scenes, a voice length that is no whole millisecond
C6_Witness ==
    /\ hist.encoder_calls = 1
    /\ vo_duration = 123456
    /\ Len(state.scenes) = 3 /\ Len(state.image_paths) = 2
    /\ cmd.t = 13846

\* scaled_i = authored_i * stretch_factor, as a numerator over stretch_factor.den
ScaledNum(i) == state.scenes[i] * tl.stretch_factor.num

\* the 0.5 s or 1.5 s the code adds to the scaled duration of image i
AddedTo(i) == IF i < Len(state.image_paths) THEN xfade_dur ELSE pause_at_end

\* C7: stretch_factor times the sum of all authored durations is the voice
\* duration, the scaled durations of all scenes sum to the voice duration and are
\* what each calc_dur is built on; for durations [5,5,5] and a 12 s voice the
\* factor is 0.8, the scaled durations are 4 s and the offsets are 4 s and 8 s.
C7_StretchFactor ==
    TimelineBuilt =>
        LET sf == tl.stretch_factor
            n == Len(state.image_paths)
        IN  /\ sf.num * SumSeq(state.scenes) = vo_duration * sf.den
            /\ SumSeq([i \in 1..Len(state.scenes) |-> ScaledNum(i)]) = vo_duration * sf.den
            /\ tl.total_scene_script_dur = sf.den
            /\ \A i \in 1..n : tl.calc_durs[i] - AddedTo(i) * sf.den = ScaledNum(i)
            /\ (state.scenes = <<5, 5, 5>> /\ vo_duration = 12 * TicksPerSec /\ n = 3) =>
                  /\ 10 * sf.num = 8 * sf.den * TicksPerSec
                  /\ \A i \in 1..3 : ScaledNum(i) = 4 * TicksPerSec * sf.den
                  /\ tl.offsets = <<4 * TicksPerSec * sf.den, 8 * TicksPerSec * sf.den>>
                  /\ hist.encoder_calls > 0 =>
                        /\ cmd.graph[4].op = "xfade" /\ cmd.graph[4].arg = 4000
                        /\ cmd.graph[5].op = "xfade" /\ cmd.graph[5].arg = 8000

\* scenario B, encoded
C7_Witness ==
    /\ TimelineBuilt /\ hist.encoder_calls = 1
    /\ state.scenes = <<5, 5, 5>> /\ vo_duration = 12 * TicksPerSec
    /\ Len(state.image_paths) = 3
    /\ tl.offsets = <<600000, 1200000>>

\* C8 (the claim as stated, for a positive voice duration): every offset is
\* the sum of the scaled durations of the scenes before the transition, the
\* offsets are strictly increasing and none exceeds the voice duration.
C8_OffsetsStrictlyIncreasing ==
    (TimelineBuilt /\ vo_duration > 0) =>
        \A i \in 1..Len(tl.offsets) :
            /\ tl.offsets[i] = SumSeq([j \in 1..i |-> ScaledNum(j)])
            /\ tl.offsets[i] <= vo_duration * tl.stretch_factor.den
            /\ i > 1 => tl.offsets[i] > tl.offsets[i - 1]

\* C8 (amended): every offset is the sum of the scaled durations of the scenes
\* before the transition and none exceeds the voice duration; the offsets never
\* decrease, and offset i exceeds offset i-1 exactly when the scaled duration of
\* scene i is positive.
C8_OffsetsAccumulate ==
    TimelineBuilt =>
        \A i \in 1..Len(tl.offsets) :
            /\ tl.offsets[i] = SumSeq([j \in 1..i |-> ScaledNum(j)])
            /\ tl.offsets[i] <= vo_duration * tl.stretch_factor.den
            /\ i > 1 => /\ tl.offsets[i] >= tl.offsets[i - 1]
                        /\ (tl.offsets[i] > tl.offsets[i - 1]) <=> (ScaledNum(i) > 0)

\* three images, a scene of duration 0 between two others, a 12 s voice: both
\* transitions at 6 s
C8_Witness ==
    /\ TimelineBuilt
    /\ state.scenes = <<5, 0, 5>> /\ Len(state.image_paths) = 3
    /\ vo_duration = 12 * TicksPerSec
    /\ tl.offsets[1] = tl.offsets[2]
    /\ tl.offsets[1] = 6 * TicksPerSec * tl.stretch_factor.den

\* generate_ass_karaoke has returned the events of the current run
CaptionsBuilt == ass.events # <<>>

\* the timestamps of an alignment never go back: start_i <= end_i <= start_i+1
Monotone(ad) ==
    LET starts == ad.character_start_times_seconds
        ends == ad.character_end_times_seconds
    IN  /\ Len(starts) = Len(ends)
        /\ \A i \in 1..Len(starts) : starts[i] <= ends[i]
        /\ \A i \in 1..(Len(starts) - 1) : ends[i] <= starts[i + 1]

C10_KaraokeSumsToSpan ==
    (CaptionsBuilt /\ Monotone(alignment_data)) =>
        \A k \in 1..(Len(ass.events) - 1) :
            SumSeq([j \in 1..Len(ass.events[k].text) |-> ass.events[k].text[j].k])
                = AssCs(ass.events[k].end) - AssCs(ass.events[k].start)

\* the maximal runs of non-whitespace characters of chars, in order
RECURSIVE RunsLoop(_, _, _, _)
RunsLoop(chars, i, cur, acc) ==
    IF i > Len(chars) THEN (IF cur = <<>> THEN acc ELSE Append(acc, cur))
    ELSE IF IsSpace(chars[i])
         THEN RunsLoop(chars, i + 1, <<>>, IF cur = <<>> THEN acc ELSE Append(acc, cur))
         ELSE RunsLoop(chars, i + 1, Append(cur, chars[i]), acc)

NonSpaceRuns(chars) == RunsLoop(chars, 1, <<>>, <<>>)

\* the three sequences of an alignment have one length
SameLengths(ad) ==
    /\ Len(ad.characters) = Len(ad.character_start_times_seconds)
    /\ Len(ad.characters) = Len(ad.character_end_times_seconds)

\* C11 (the claim as stated): the words are the maximal runs of non-whitespace
\* characters, each with the normalized upper-cased text of all characters of
\* its run, the last character of the input included; "HI THERE!" gives the
\* words HI and THERE! in one caption event (followed by the call to action).
C11_WordsAreWholeRuns ==
    (CaptionsBuilt /\ SameLengths(alignment_data)) =>
        LET runs == NonSpaceRuns(alignment_data.characters)
        IN  /\ Len(ass.words) = Len(runs)
            /\ \A k \in 1..Len(runs) : ass.words[k].text = CleanUpper(runs[k])
            /\ alignment_data.characters = <<"H", "I", " ", "T", "H", "E", "R", "E", "!">> =>
                  /\ [k \in 1..Len(ass.words) |-> ass.words[k].text]
                        = << <<"H", "I">>, <<"T", "H", "E", "R", "E", "!">> >>
                  /\ Len(ass.events) = 2
                  /\ Len(ass.events[1].text) = 2

\* the current run has gone through section p
Entered(p) == \E k \in 1..Len(hist.stages) : hist.stages[k] = p

\* C12 (the claim as stated, for a job with one image per scene): once the
\* timing section has run on scenes whose authored durations sum to zero, or on
\* a measured voice duration <= 0, the run is Failed and the encoder is never
\* invoked.
C12_DegenerateTimelineRejected ==
    (/\ Entered("timing")
     /\ Len(state.image_paths) = Len(state.scenes)
     /\ (SumSeq(state.scenes) = 0 \/ vo_duration <= 0)) =>
        /\ pc = "failed"
        /\ hist.encoder_calls = 0

\* C13 (the claim as stated): when the characters, start times and end times
\* of the alignment differ in length, the caption builder fails: the run is
\* Failed, no caption file is written and the encoder is not invoked.
C13_MalformedAlignmentRejected ==
    (Entered("captions") /\ ~SameLengths(alignment_data)) =>
        /\ pc = "failed"
        /\ fs[AssPath(Row)] = NoFile
        /\ hist.encoder_calls = 0

\* C14 (the claim as stated, for a positive voice duration): a run whose image
\* list is empty, or has fewer or more entries than the script has scenes,
\* never reaches the encoder.
C14_MissingImagesRejected ==
    (/\ pc # "idle" /\ ~StartedCached
     /\ vo_duration > 0
     /\ (state.image_paths = <<>> \/ Len(state.image_paths) # Len(state.scenes))) =>
        /\ pc \notin {"encode", "sync", "publish", "done"}
        /\ hist.encoder_calls = 0

\* the stages of the music branch of the audio graph
MusicOps == {"apad_asplit", "loop_afade", "sidechaincompress", "amix"}

\* the inputs of the encoder command that are audio files
AudioInputs(c) == {k \in 1..Len(c.inputs) : c.inputs[k].kind = "audio"}

\* C15: when OUTPUT_DIR holds no background-music file, the audio graph is the
\* single stage that pads the voice input by the trailing pause into the final
\* audio stream: no loop, fade, ducking or mix stage exists, and the encoder
\* command has the voice file as its only audio input.
C15_VoiceOnlyWithoutMusic ==
    (Entered("audio") /\ ~audio.selected_music) =>
        LET n == Len(state.image_paths)
            af == audio.audio_filter
        IN  /\ Len(af) = 1
            /\ af[1].op = "apad" /\ af[1].arg = pause_at_end
            /\ af[1].ins = <<Lbl("in_a", n)>>
            /\ af[1].outs = <<Lbl("a_final", 0)>>
            /\ \A j \in 1..Len(af) : af[j].op \notin MusicOps
            /\ hist.encoder_calls > 0 =>
                  /\ \A j \in 1..Len(cmd.graph) : cmd.graph[j].op \notin MusicOps
                  /\ AudioInputs(cmd) = {n + 1}
                  /\ cmd.inputs[n + 1].path = <<"vo_row", Row, "mp3">>
                  /\ Len(cmd.inputs) = n + 1

\* three images and no music file, encoded and published
C15_Witness ==
    /\ pc = "done" /\ hist.enc_rc = 0
    /\ ~audio.selected_music
    /\ Len(state.image_paths) = 3
    /\ Len(cmd.inputs) = 4

\* the paths at which a file written by the current run exists
WrittenByRun == {p \in Paths : fs[p] # NoFile /\ fs[p].run = run}

\* C16: when a run has ended Done through Encode and Publish, no file exists at
\* subs_row_<id>.ass (whether or not an earlier failed run had left one there),
\* and the only file of OUTPUT_DIR that the run wrote and that still exists is
\* the complete Video_Row_<id>.mp4.
C16_CaptionFileRemoved ==
    (pc = "done" /\ Entered("publish")) =>
        /\ fs[AssPath(Row)] = NoFile
        /\ WrittenByRun = {VideoPath(Row)}
        /\ fs[VideoPath(Row)] = [kind |-> "full", run |-> run]

\* the second run on a row succeeds after the first failed in the encoder and
\* left its caption file behind
C16_Witness ==
    /\ pc = "done" /\ Entered("publish") /\ run = 2
    /\ hist.prev.row = Row /\ hist.prev.pc = "failed"
    /\ fs[VideoPath(Row)] = [kind |-> "full", run |-> 2]
    /\ fs[AssPath(Row)] = NoFile

\* the locals of both workers of SpecTwoJobs
Workers == {Locals, other}

\* the job (row) of the worker that was started as the k-th process
RowOfWorker(k) == k + 1

\* what a worker that ran alone would have found when its sync ended without a
\* fault of git itself: its video on the remote
SyncedAsAlone(w) ==
    (w.pc \in {"publish", "done"} /\ w.hist.sync_calls = 1 /\ ~w.hist.git_fault) =>
        VideoPath(w.state.row_index) \in git_remote

\* C17 (the claim as stated): of two workers on different rows, each file of
\* OUTPUT_DIR is written by the worker of its path's row only, nothing but the
\* sheet is shared, and what a worker has done when it ends is what it does
\* when it runs alone: after a sync in which no git command met a fault of its
\* own, the worker's video is on the remote.
C17_JobsIndependent ==
    /\ \A p \in Paths : fs[p] # NoFile => RowOfWorker(fs[p].run) = p[2]
    /\ \A w \in Workers : SyncedAsAlone(w)

\* the same for a worker whose companion has not taken a step
C17_AloneBaseline ==
    (\E w \in Workers : w.pc = "cache" /\ w.hist.stages = <<>>) =>
        /\ \A p \in Paths : fs[p] # NoFile => RowOfWorker(fs[p].run) = p[2]
        /\ \A w \in Workers : SyncedAsAlone(w)

\* the labels a stage of a graph puts out / takes in
OutsOf(stage) == {stage.outs[k] : k \in 1..Len(stage.outs)}

InsOf(stage) == {stage.ins[k] : k \in 1..Len(stage.ins)}

\* the stages of graph g before stage j that put out label l
ProducersBefore(g, j, l) == {i \in 1..(j - 1) : l \in OutsOf(g[i])}

\* the stages of graph g with operation op
StagesOf(g, op) == {j \in 1..Len(g) : g[j].op = op}

\* C18 (the claim as stated, one image per scene): with a music file selected, every
\* label a stage of the audio graph consumes is an input stream or the output
\* of exactly one earlier stage, the sidechain is keyed to an output of the
\* voice padding, the final mix takes a padded voice and the ducked music, and
\* the music fade-out starts one second before total_target_dur.
C18_MusicGraphWellFormed ==
    (/\ Entered("audio") /\ audio.selected_music
     /\ vo_duration > 0
     /\ state.image_paths # <<>> /\ Len(state.image_paths) = Len(state.scenes)) =>
        LET af == audio.audio_filter
            pad == CHOOSE j \in StagesOf(af, "apad_asplit") : TRUE
            duck == CHOOSE j \in StagesOf(af, "sidechaincompress") : TRUE
            mix == CHOOSE j \in StagesOf(af, "amix") : TRUE
            fade == CHOOSE j \in StagesOf(af, "loop_afade") : TRUE
        IN  /\ \A op \in MusicOps : Cardinality(StagesOf(af, op)) = 1
            /\ \A j \in 1..Len(af) : \A l \in InsOf(af[j]) :
                  l.n = "in_a" \/ Cardinality(ProducersBefore(af, j, l)) = 1
            /\ af[duck].ins[2] \in OutsOf(af[pad])
            /\ af[duck].ins[1] \in OutsOf(af[fade])
            /\ af[mix].ins[1] \in OutsOf(af[pad])
            /\ af[mix].ins[2] \in OutsOf(af[duck])
            /\ af[mix].outs = <<Lbl("a_final", 0)>>
            /\ af[fade].arg = tl.total_target_dur - TicksPerSec

\* length of the visual chain once clip k is attached, as a numerator over
\* total_scene_script_dur: an xfade ends where its second input ends, which
\* starts at the offset
ChainLen(k) == IF k = 1 THEN tl.calc_durs[1] ELSE tl.offsets[k - 1] + tl.calc_durs[k]

\* the same from the numbers printed into the command, in milliseconds
PrintedChainLen(k) ==
    LET n == Len(state.image_paths)
    IN  IF k = 1 THEN cmd.inputs[1].t ELSE cmd.graph[n + k - 1].arg + cmd.inputs[k].t

Within(a, b, d) == a - b <= d /\ b - a <= d

\* C19: with one image per scene, every transition's offset plus the 0.5 s
\* fade is the length of the chain built so far, and the chain with the last
\* clip attached is as long as voice duration plus trailing pause, which is
\* total_target_dur, the length of the padded voice and the -t of the command;
\* the numbers printed with three decimals agree within one millisecond.
C19_ChainLengthIsTotal ==
    (TimelineBuilt /\ state.image_paths # <<>> /\ Len(state.image_paths) = Len(state.scenes)) =>
        LET n == Len(state.image_paths)
            den == tl.total_scene_script_dur
            ms == xfade_dur \div TicksPerMs
        IN  /\ \A k \in 1..(n - 1) : tl.offsets[k] + xfade_dur * den = ChainLen(k)
            /\ ChainLen(n) = (vo_duration + pause_at_end) * den
            /\ ChainLen(n) = tl.total_target_dur * den
            /\ (Entered("audio") /\ ~audio.selected_music) =>
                  vo_duration + audio.audio_filter[1].arg = tl.total_target_dur
            /\ hist.encoder_calls > 0 =>
                  /\ \A k \in 1..(n - 1) :
                        /\ cmd.graph[n + k].op = "xfade"
                        /\ Within(cmd.graph[n + k].arg + ms, PrintedChainLen(k), 1)
                  /\ Within(PrintedChainLen(n), cmd.t, 1)

\* three scenes of 3, 5 and 3 seconds with their images and a voice of
\* 12.3456 s, encoded
C19_Witness ==
    /\ TimelineBuilt /\ hist.encoder_calls = 1 /\ hist.enc_rc = 0
    /\ state.scenes = <<3, 5, 3>> /\ Len(state.image_paths) = 3
    /\ vo_duration = 123456
    /\ Len(tl.offsets) = 2

\* the indices at which a maximal run of non-whitespace characters starts
RunStartIndices(chars) ==
    {i \in 1..Len(chars) : ~IsSpace(chars[i]) /\ (i = 1 \/ IsSpace(chars[i - 1]))}

\* the boundary of the run that starts at i: the first whitespace after it, or
\* the final character
BoundaryOf(chars, i) ==
    LET spaces == {j \in i..Len(chars) : IsSpace(chars[j])}
    IN  IF spaces = {} THEN Len(chars)
        ELSE CHOOSE j \in spaces : \A m \in spaces : j <= m

\* the k-th smallest element of a set of numbers
RECURSIVE KthOf(_, _)
KthOf(S, k) ==
    LET least == CHOOSE x \in S : \A y \in S : x <= y
    IN  IF k = 1 THEN least ELSE KthOf(S \ {least}, k - 1)

\* C20 (the claim as stated): the k-th word starts at the start time of the
\* first character of the k-th run of non-whitespace characters, also when that
\* time is 0.0 or the run follows several whitespace characters, and ends at
\* the end time of the character that closed it.
C20_WordStartAndEnd ==
    (CaptionsBuilt /\ SameLengths(alignment_data)) =>
        LET chars == alignment_data.characters
            first == RunStartIndices(chars)
        IN  /\ Len(ass.words) <= Cardinality(first)
            /\ \A k \in 1..Len(ass.words) :
                  LET i == KthOf(first, k)
                  IN  /\ ass.words[k].start = alignment_data.character_start_times_seconds[i]
                      /\ ass.words[k].end =
                            alignment_data.character_end_times_seconds[BoundaryOf(chars, i)]

\* the same for alignments whose first character does not start at 0.0
C20_WhenNoStartIsZero ==
    (/\ CaptionsBuilt /\ SameLengths(alignment_data)
     /\ \A i \in 1..Len(alignment_data.characters) :
           alignment_data.character_start_times_seconds[i] # 0) =>
        LET chars == alignment_data.characters
            first == RunStartIndices(chars)
        IN  /\ Len(ass.words) <= Cardinality(first)
            /\ \A k \in 1..Len(ass.words) :
                  LET i == KthOf(first, k)
                  IN  /\ ass.words[k].start = alignment_data.character_start_times_seconds[i]
                      /\ ass.words[k].end =
                            alignment_data.character_end_times_seconds[BoundaryOf(chars, i)]

\* the caption events of the current run: all events but the call to action
CaptionCount == Len(ass.events) - 1

\* number of words in the caption events before event k
RECURSIVE WordsBefore(_)
WordsBefore(k) == IF k = 1 THEN 0 ELSE WordsBefore(k - 1) + Len(ass.events[k - 1].text)

\* C21: the caption events partition the words in input order into chunks of
\* 1 to max_words words; a chunk is closed exactly at a word that makes it
\* max_words long or contains '!', '.' or '?' (only the last chunk may end
\* without either), and an event runs from its first word's start to its last
\* word's end, each word carrying its own \k duration.
C21_ChunksPartitionWords ==
    CaptionsBuilt =>
        /\ WordsBefore(CaptionCount + 1) = Len(ass.words)
        /\ \A k \in 1..CaptionCount :
              LET ev == ass.events[k]
                  n == Len(ev.text)
                  a == WordsBefore(k)
              IN  /\ ev.style = "Default"
                  /\ n >= 1 /\ n <= max_words
                  /\ \A j \in 1..n : ev.text[j] = KTag(ass.words[a + j])
                  /\ \A j \in 1..(n - 1) : ~HasSentenceEnd(ass.words[a + j].text)
                  /\ k < CaptionCount => (n = max_words \/ HasSentenceEnd(ass.words[a + n].text))
                  /\ ev.start = ass_ts(ass.words[a + 1].start)
                  /\ ev.end = ass_ts(ass.words[a + n].end)

\* five words without punctuation: an event of max_words words, then the
\* remaining word flushed at the end
C21_Witness ==
    /\ CaptionsBuilt
    /\ Len(ass.words) = 5
    /\ CaptionCount = 2
    /\ Len(ass.events[1].text) = 4 /\ Len(ass.events[2].text) = 1

\* C22 (the claim as stated): the events end with exactly one call to action,
\* which spans from the end of the last word the segmenter emitted to that time
\* plus the trailing pause and carries the upper-cased text, also when the
\* alignment ends in whitespace or in characters that produce no word.
C22_CtaAtLastWordEnd ==
    (CaptionsBuilt /\ SameLengths(alignment_data) /\ ass.words # <<>>) =>
        LET n == Len(ass.events)
            last_word_end == ass.words[Len(ass.words)].end
        IN  /\ {k \in 1..n : ass.events[k].style = "CTA"} = {n}
            /\ ass.events[n].cta = UpperStr(TopicOf(state))
            /\ ass.events[n].start = ass_ts(last_word_end)
            /\ ass.events[n].end = ass_ts(last_word_end + pause_at_end)

\* C22 (amended): the events end with exactly one call to action, which
\* carries the upper-cased text and spans from the end time of the last
\* character of the alignment, whether or not a word ends there, to that time
\* plus the trailing pause.
C22_CtaAtLastCharacterEnd ==
    CaptionsBuilt =>
        LET n == Len(ass.events)
            ends == alignment_data.character_end_times_seconds
        IN  /\ {k \in 1..n : ass.events[k].style = "CTA"} = {n}
            /\ ass.events[n].cta = UpperStr(TopicOf(state))
            /\ ass.events[n].start = ass_ts(ends[Len(ends)])
            /\ ass.events[n].end = ass_ts(ends[Len(ends)] + pause_at_end)

\* an alignment that ends in two whitespace characters: the last word ended
\* before the last character does
C22_Witness ==
    /\ CaptionsBuilt /\ SameLengths(alignment_data) /\ ass.words # <<>>
    /\ LET chars == alignment_data.characters
           ends == alignment_data.character_end_times_seconds
       IN  /\ Len(chars) >= 3
           /\ IsSpace(chars[Len(chars)]) /\ IsSpace(chars[Len(chars) - 1])
           /\ ass.words[Len(ass.words)].end < ends[Len(ends)]
           /\ ass.events[Len(ass.events)].start = ass_ts(ends[Len(ends)])

\* C23 (the claim as stated): no word with empty normalized text is emitted,
\* and no caption event carries one.
C23_NoEmptyWords ==
    CaptionsBuilt =>
        /\ \A k \in 1..Len(ass.words) : ass.words[k].text # <<>>
        /\ \A k \in 1..CaptionCount : \A j \in 1..Len(ass.events[k].text) :
              ass.events[k].text[j].w # <<>>

\* the render duration the claim gives scene i, as a numerator over
\* total_scene_script_dur
ClaimedRenderDur(i) ==
    ScaledNum(i)
        + (IF i < Len(state.scenes) THEN xfade_dur ELSE pause_at_end) * tl.total_scene_script_dur

\* C24 (the claim as stated): once the command is built, every scene has a
\* looping image input whose time limit is its scaled duration plus 0.5 s, or
\* plus the 1.5 s pause for the last scene.
C24_RenderDurations ==
    (hist.encoder_calls > 0 /\ state.image_paths # <<>>) =>
        \A i \in 1..Len(state.scenes) :
            /\ i <= Len(state.image_paths)
            /\ tl.calc_durs[i] = ClaimedRenderDur(i)
            /\ cmd.inputs[i].kind = "image"
            /\ cmd.inputs[i].t = Fmt3(ClaimedRenderDur(i), tl.total_scene_script_dur)

\* the same for the jobs that have one image per scene
C24_WhenImagesMatchScenes ==
    (hist.encoder_calls > 0 /\ Len(state.image_paths) = Len(state.scenes)) =>
        \A i \in 1..Len(state.scenes) :
            /\ tl.calc_durs[i] = ClaimedRenderDur(i)
            /\ cmd.inputs[i].kind = "image"
            /\ cmd.inputs[i].t = Fmt3(ClaimedRenderDur(i), tl.total_scene_script_dur)

\* C25: for n >= 1 images the command's graph has n pan/zoom clips, one per
\* image input in scene order, n-1 cross-fades of 0.5 s, the k-th fading the
\* chain so far into clip k+1, and one caption overlay on the last cross-fade
\* (on the single clip when n = 1) that puts out the mapped final video
\* stream; every label a visual stage consumes is an image input or the output
\* of exactly one earlier stage.
C25_VisualGraph ==
    (hist.encoder_calls > 0 /\ state.image_paths # <<>>) =>
        LET n == Len(state.image_paths)
            g == cmd.graph
            visual == StagesOf(g, "zoompan") \cup StagesOf(g, "xfade") \cup StagesOf(g, "ass")
        IN  /\ StagesOf(g, "zoompan") = 1..n
            /\ StagesOf(g, "xfade") = (n + 1)..(2 * n - 1)
            /\ StagesOf(g, "ass") = {2 * n}
            /\ \A i \in 1..n :
                  /\ g[i].ins = <<Lbl("in_v", i - 1)>>
                  /\ cmd.inputs[i].kind = "image"
                  /\ cmd.inputs[i].path = state.image_paths[i]
                  /\ Len(g[i].outs) = 1
            /\ \A k \in 1..(n - 1) :
                  /\ g[n + k].dur = xfade_dur
                  /\ g[n + k].ins[1] = (IF k = 1 THEN g[1].outs[1] ELSE g[n + k - 1].outs[1])
                  /\ g[n + k].ins[2] = g[k + 1].outs[1]
            /\ g[2 * n].ins = (IF n = 1 THEN g[1].outs ELSE g[2 * n - 1].outs)
            /\ g[2 * n].outs = <<Lbl("v_final", 0)>>
            /\ Lbl("v_final", 0) \in Mapped(cmd)
            /\ \A j \in visual : \A l \in InsOf(g[j]) :
                  IsInputStream(cmd, l) \/ Cardinality(ProducersBefore(g, j, l)) = 1

\* three images: three clips, two cross-fades, the overlay on the second
C25_Witness ==
    /\ hist.encoder_calls = 1 /\ hist.enc_rc = 0
    /\ Len(state.image_paths) = 3
    /\ cmd.graph[5].op = "xfade" /\ cmd.graph[6].op = "ass"
    /\ cmd.graph[6].ins = <<Lbl("xf", 2)>>

\* the upload stage of the current pipeline run has called a platform
PlatformAttempted == pl.yt_attempts > 0 \/ pl.insta_attempts > 0

\* the flags should_continue asks for before "upload"
FlagsAllSet == pl.isscriptgenerated /\ pl.isimagesgenerated /\ state.isvideogenerated

\* C26 (the claim as stated): the graph reaches the upload stage only with the
\* script, images and video flags all set, and a run in which one of them is
\* not set ends without an attempt to upload to any platform.
C26_UploadOnlyWhenFlagsSet ==
    /\ pl.node = "upload" => FlagsAllSet
    /\ (pl.node \in {"upload", "end"} /\ PlatformAttempted) => FlagsAllSet

\* the ledger keeps UPLOADED for every row it once showed as uploaded to YouTube
C27_StatusKept == \A r \in pl.was_uploaded : sheet[r].yt = Uploaded

\* no row was sent to YouTube after the ledger showed it as uploaded
C27_NoSecondUpload == pl.reuploads = 0

\* C27 (the claim as stated): over any sequence of pipeline runs, once the
\* ledger's YouTube status of a row is UPLOADED it is never overwritten and the
\* row's video is never uploaded to YouTube again.
C27_UploadedIsFinal == C27_StatusKept /\ C27_NoSecondUpload

\* video_upload_node has returned
UploadReturned == pl.node = "end" /\ pl.up = "returned"

\* C28: video_upload_node returns isvideouploaded = true only if the ledger
\* shows UPLOADED for both the YouTube and the Instagram status of the row at
\* the end of the node; the Instagram upload is attempted only when the YouTube
\* status is UPLOADED; and a failed metadata generation, YouTube upload or
\* Instagram upload leaves isvideouploaded = false.
C28_UploadedMeansLedgerUploaded ==
    /\ (UploadReturned /\ pl.isvideouploaded)
          => (sheet[pl.row].yt = Uploaded /\ sheet[pl.row].insta = Uploaded)
    /\ pl.insta_attempts > 0 => pl.yt_at_insta = Uploaded
    /\ (UploadReturned /\ pl.failed_step \in {"meta", "youtube", "insta"})
          => ~pl.isvideouploaded

\* a run that uploaded to YouTube, then to Instagram, and returned true
C28_Witness ==
    /\ UploadReturned /\ pl.isvideouploaded
    /\ pl.yt_attempts = 1 /\ pl.insta_attempts = 1
    /\ pl.failed_step = "none"

\* C29: the step the node takes on a cache hit changes nothing but the
\* isvideogenerated and final_video_path fields of the job state: no file is
\* written or deleted (no caption file appears), the duration probe and the
\* encoder are not run, nothing is synced to git and the sheet is not touched;
\* the node returns with that step.
C29_CacheHitFrame ==
    [][(pc = "cache" /\ CacheHit(fs, state) /\ pc' # pc) =>
          /\ pc' = "done"
          /\ state' = [state EXCEPT !.isvideogenerated = state'.isvideogenerated,
                                    !.final_video_path = state'.final_video_path]
          /\ UNCHANGED <<fs, sheet, git_remote, git_repo>>
          /\ UNCHANGED <<alignment_data, vo_duration, tl, audio, ass, cmd>>
          /\ hist'.probe_calls = hist.probe_calls
          /\ hist'.encoder_calls = hist.encoder_calls
          /\ hist'.sync_calls = hist.sync_calls
          /\ hist'.stages = Append(hist.stages, "cache")]_vars

\* the second run on a row finds the video the first run made: it returns from
\* the cache check with the sheet and the files as the first run left them
C29_Witness ==
    /\ pc = "done" /\ run = 2 /\ hist.stages = <<"cache">>
    /\ hist.prev.row = Row /\ hist.prev.pc = "done" /\ ~hist.prev.hit
    /\ hist.video0 = [kind |-> "full", run |-> 1]
    /\ fs[AssPath(Row)] = NoFile
    /\ hist.probe_calls = 0 /\ hist.encoder_calls = 0 /\ hist.sync_calls = 0
    /\ ass = NoAss /\ cmd = NoCmd

\* C30: once the encoder has exited with code 0 the run does not fail: it goes
\* through the sync and ends Done with isvideogenerated = true, final_video_path
\* set and the caption file deleted, whatever the git push and the sheet update
\* inside sync_to_cloud did.
C30_ResultIndependentOfSync ==
    (pc # "idle" /\ hist.enc_rc = 0) =>
        /\ pc \in {"sync", "publish", "done"}
        /\ pc \in Terminal =>
              /\ pc = "done"
              /\ hist.sync_calls = 1
              /\ state.isvideogenerated
              /\ state.final_video_path = VideoPath(Row)
              /\ fs[AssPath(Row)] = NoFile

\* a first run that ended Done although the push failed and no cell of the
\* sheet was written
C30_Witness ==
    /\ pc = "done" /\ run = 1 /\ hist.enc_rc = 0 /\ hist.sync_calls = 1
    /\ VideoPath(Row) \notin git_remote
    /\ sheet[Row] = [url |-> <<>>, yt |-> NotUploaded, insta |-> NotUploaded]
    /\ state.isvideogenerated
    /\ fs[VideoPath(Row)] = [kind |-> "full", run |-> 1]

\* image_generation has run to its return statement of line 149
ImagesReturned == local.node = "image_gen" /\ local.pc = "returned"

\* every scene has an image path
EverySceneHasPath ==
    /\ Len(local.image_paths) = local.n
    /\ \A i \in 1..local.n : local.image_paths[i] = ImagePath(i)

\* C31: when the image of exactly one of at least two scenes could not be
\* generated, the fallback gives that scene its own path holding a copy of the
\* previous scene's image (of the next scene's image for the first scene) and
\* isimagesgenerated is true; and whenever the stage has run to its end,
\* isimagesgenerated is true if and only if every scene has an image path.
C31_FallbackFillsOneGap ==
    ImagesReturned =>
        /\ local.isimagesgenerated <=> EverySceneHasPath
        /\ (local.n >= 2 /\ Cardinality(local.missing) = 1) =>
              /\ local.isimagesgenerated
              /\ \A i \in local.missing :
                    /\ local.image_paths[i] = ImagePath(i)
                    /\ local.files[i] = IF i > 1 THEN i - 1 ELSE 2
              /\ \A i \in (1..local.n) \ local.missing : local.files[i] = i

\* three scenes, the first one's image failed: it holds a copy of the second
C31_Witness ==
    /\ ImagesReturned /\ local.n = 3 /\ local.missing = {1}
    /\ local.files = <<2, 2, 3>>
    /\ local.isimagesgenerated

\* the number of times scene i occurs in task_indices
TasksOf(i) == Cardinality({k \in 1..Len(local.task_indices) : local.task_indices[k] = i})

\* C32: during image_generation at most 2 requests are in flight at any
\* moment; once the tasks are created every scene without a cached image has
\* exactly one worker and a cached scene none; a worker posts at most 5 times
\* and never again after a 400 response; and the stage goes on to the fallback
\* and returns only when every worker has finished.
C32_BoundedConcurrentWorkers ==
    local.node = "image_gen" =>
        /\ Cardinality(InFlight(local)) <= 2
        /\ local.pc \in {"gather", "fallback", "returned"} =>
              \A i \in 1..local.n :
                 /\ TasksOf(i) = (IF i \in local.cached THEN 0 ELSE 1)
                 /\ (local.w[i].ph = "none") <=> (i \in local.cached)
        /\ \A i \in 1..local.n :
              /\ local.w[i].posts <= 5
              /\ local.w[i].late = 0
              /\ local.w[i].got400 =>
                    (local.w[i].ph \in {"grace", "finished"} /\ local.w[i].result = NoImage)
        /\ local.pc \in {"fallback", "returned"} =>
              \A i \in 1..local.n : local.w[i].ph \in {"none", "finished"}

\* three scenes need an image: two requests are in flight, one of them the
\* fifth attempt of its worker, and the third worker waits for the semaphore
C32_Witness ==
    /\ local.node = "image_gen" /\ local.pc = "gather" /\ local.n = 3
    /\ local.cached = {}
    /\ local.w[1].ph = "posted" /\ local.w[1].posts = 5
    /\ local.w[2].ph = "posted"
    /\ local.w[3].ph = "waiting"

\* audio_generation has returned
AudioReturned == local.node = "audio_gen" /\ local.pc = "returned"

\* the files of the row are the ones the call found
AudioFilesKept == local.vo = local.entry.vo /\ local.al = local.entry.al

\* C33: when the voice file and the alignment file exist and the alignment
\* parses, audio_generation sets isvoicegenerated = true, calls the speech API
\* not once and leaves both files as they were; when the cached alignment does
\* not parse it goes on to generate (the failure, if any, is one of the
\* generation, and a full answer of the API gives isvoicegenerated = true and
\* new files); when the script was not generated it returns the state
\* unchanged without an API call.
C33_AudioCacheIdempotent ==
    AudioReturned =>
        /\ (local.isscriptgenerated /\ local.entry.vo.kind # "none"
                /\ local.entry.al.kind = "json") =>
              /\ local.st.isvoicegenerated
              /\ local.st.alignment_data = local.entry.al
              /\ local.posts = 0
              /\ AudioFilesKept
        /\ (local.isscriptgenerated /\ local.entry.vo.kind # "none"
                /\ local.entry.al.kind = "corrupt") =>
              /\ local.branch \in {"generated", "failed"}
              /\ local.fail_at # "cache"
              /\ local.posts >= 1 \/ local.fail_at = "prepare"
              /\ local.last = "ok" =>
                    /\ local.st.isvoicegenerated
                    /\ local.vo = [kind |-> "mp3", run |-> local.runs]
                    /\ local.al = [kind |-> "json", run |-> local.runs]
        /\ ~local.isscriptgenerated =>
              /\ local.st = local.entry.st
              /\ local.posts = 0
              /\ AudioFilesKept

\* the second process finds the files the first one generated and returns
\* them without a call
C33_Witness ==
    /\ AudioReturned /\ local.runs = 2 /\ local.branch = "hit"
    /\ local.entry.vo = [kind |-> "mp3", run |-> 1]
    /\ local.entry.al = [kind |-> "json", run |-> 1]
    /\ local.posts = 0 /\ local.st.isvoicegenerated /\ AudioFilesKept

====
